---- MODULE Spec2Model ----
(***************************************************************************)
(* Agent messaging and orchestration layer: the mailbox bus                *)
(* (core/message_bus.py), the agent runtime (core/base_agent.py), the      *)
(* capability agents' handlers (agents/*.py) and the orchestrator's plan   *)
(* execution (core/gemini_core.py).                                        *)
(*                                                                         *)
(* Tasks are asyncio coroutines on one event loop: an action of this       *)
(* module is a piece of code that runs between two suspension points, or   *)
(* a prefix of one.  Time is the wall clock in whole seconds (`now`).      *)
(***************************************************************************)
EXTENDS Integers, Sequences, FiniteSets, TLC

\* ------------------------------------------------------------------ bounds
MaxReqs == 2          \* calls of process_user_request in one run
MaxSteps == 2         \* steps of the plans of one run, taken together
MaxFifoSteps == 2     \* the same, in runs that only reschedule meetings
MaxFifoLate == 2      \* MaxLate of these runs
MaxLate == 1          \* seconds that may pass while a task could run or nobody waits
AGENT_TIMEOUT == 2    \* config/settings.py AGENT_TIMEOUT (30 s), scaled down
LOOKUP_TIMEOUT == 1   \* timeout=10 of CalendarAgent._get_contact_email, scaled down

Reqs == 1..MaxReqs

\* ------------------------------------------------------------ agent names
GEMINI == "gemini_core"
CONTACT == "contact_agent"
CALENDAR == "calendar_agent"
EMAIL == "email_agent"
AgentNames == {GEMINI, CONTACT, CALENDAR, EMAIL}

\* ------------------------------------------------------------- data shapes
\* A Python dict with string keys and string values.
EmptyDict == [k \in {} |-> ""]

\* Message payloads (the `data` dict of an AgentMessage): one record shape,
\* an absent key is "" / <<>> / FALSE.
MakeData(type, action, parameters, status, has_data, data, meetings, nst, net, message, cid) ==
    [type |-> type, action |-> action, parameters |-> parameters,
     status |-> status, has_data |-> has_data, data |-> data,
     meetings |-> meetings, new_start_time |-> nst, new_end_time |-> net,
     message |-> message, correlation_id |-> cid]

TaskData(action, parameters) ==
    MakeData("task", action, parameters, "", FALSE, EmptyDict, <<>>, "", "", "", "")

\* A handler's return value before _handle_message normalises it: no "type".
Reply(status, message) ==
    MakeData("", "", EmptyDict, status, FALSE, EmptyDict, <<>>, "", "", message, "")

ReplyData(status, data) ==
    MakeData("", "", EmptyDict, status, TRUE, data, <<>>, "", "", "", "")

AmbiguousReply(message, meetings, nst, net) ==
    MakeData("", "", EmptyDict, "ambiguous", FALSE, EmptyDict, meetings, nst, net, message, "")

\* The handler returned None.
None == MakeData("None", "", EmptyDict, "", FALSE, EmptyDict, <<>>, "", "", "", "")

\* The dataclass AgentMessage.  `origin` is no field of it: it records for
\* which call of process_user_request the message was made (0: for none).
AgentMessage(sender, recipient, message_type, data, correlation_id, timestamp) ==
    [sender |-> sender, recipient |-> recipient, message_type |-> message_type,
     data |-> data, correlation_id |-> correlation_id, timestamp |-> timestamp,
     origin |-> 0]

For(r, message) == [message EXCEPT !.origin = r]

NoMessage == AgentMessage("", "", "", None, "", 0)

\* --------------------------------------------------------------- variables
VARIABLES
    now,             \* time.time() in whole seconds
    late,            \* the seconds that have passed while a task could run or nobody waited
    message_queues,  \* MessageBus.message_queues: name -> FIFO of messages
    send_order,      \* per mailbox, the undispatched messages in the order they were sent
    status,          \* BaseAgent.status
    running,         \* BaseAgent._running
    task_alive,      \* BaseAgent._message_handler_task is a live task
    handling,        \* the message inside _handle_message (NoMessage: the loop waits on its queue)
    lookup,          \* CalendarAgent._get_contact_email in progress: its correlation id and start time
    lookups,         \* number of _get_contact_email calls so far (the event loop's clock reading)
    active_tasks,    \* GeminiCore.active_tasks: correlation id -> response data
    history,         \* GeminiCore.history
    pc,              \* per request: position in process_user_request
    plan,            \* per request: task_plan["steps"]
    step,            \* per request: loop index i of _execute_task_plan
    params,          \* per request: resolved_parameters of the current step
    correlation_id,  \* per request: correlation id of the current wait
    start_time,      \* per request: start_time of the current _wait_for_response
    results,         \* per request: results of _execute_task_plan
    context,         \* per request: context of _execute_task_plan
    reply,           \* per request: the text process_user_request returned ("" if none)
    sent,            \* per request: the request messages it has sent, in order
    planner,         \* per request: what the planner call came to
    task_origin,     \* per entry of active_tasks: the request its response was made for
    answered,        \* per request: the requests whose responses its waits returned
    log,             \* per agent: what its receive loop did with the last message it dispatched
    stops,           \* per agent: the stop() calls that await the task they cancelled
    hooks,           \* per agent: the start() calls that await on_start, by caller
    stopped,         \* per agent: a stop() has returned and no start() was called since it began
    last_start,      \* per agent: how the start() call that ended last ended
    calls,           \* number of start() and stop() calls made from outside so far
    sends,           \* number of messages a client has sent through the bus so far
    parked,          \* per agent: correlation ids of the client's messages sent while it was stopped
    last_send,       \* the client's last send_message call: its argument and return value
    agents,          \* AgentRegistry.agents: the registered names in insertion order
    message_queue,   \* per agent: BaseAgent.message_queue
    lock,            \* AgentRegistry._lock: the call that holds it ("": none)
    start_all,       \* the start_all_agents call: its position, snapshot and progress
    last_call,       \* the registry call that ended last and its return value
    trail,           \* per name: the effects of its last unregister_agent call, in order
    subscribers,     \* MessageBus.subscribers: topic -> list of names
    last_op,         \* the bus operation a client made last, and whether it raised
    bus_lock,        \* MessageBus._lock: the suspended call that holds it ("": none)
    asked,           \* per request: the prompts of _handle_ambiguity and their answers
    call             \* a call of one of the orchestrator's helper functions: arguments and result

bus_vars == <<message_queues, send_order>>
agent_vars == <<status, running, task_alive, handling, lookup, lookups, log>>
core_vars == <<active_tasks, task_origin, history>>
req_vars == <<pc, plan, step, params, correlation_id, start_time, results, context,
              reply, sent, planner, answered, asked>>
send_vars == <<sends, parked, last_send>>
life_vars == <<stops, hooks, stopped, last_start, calls, send_vars>>
registry_vars == <<agents, message_queue, lock, start_all, last_call, trail>>
topic_vars == <<subscribers, last_op, bus_lock>>
vars == <<now, late, bus_vars, agent_vars, core_vars, req_vars, life_vars, registry_vars,
          topic_vars, call>>

\* Another task than the one that called start_all_agents can run: that
\* call, if there is one, is suspended or has ended.
Suspended == start_all.pc # "run"

\* ------------------------------------------------------------ message bus
\* A bus that makes a mailbox for a recipient it does not know.
BusSend_Create(queues, message) ==
    IF message.recipient \notin DOMAIN queues
    THEN (message.recipient :> <<message>>) @@ queues
    ELSE [queues EXCEPT ![message.recipient] = Append(@, message)]

\* MessageBus.send_message: the queue table after the call.
BusSend(queues, message) ==
    IF message.recipient \notin DOMAIN queues
    THEN queues
    ELSE [queues EXCEPT ![message.recipient] = Append(@, message)]

\* MessageBus.send_message: its return value.
BusSendResult(queues, message) == message.recipient \in DOMAIN queues

\* ----------------------------------------------------------- agent runtime
\* asyncio.get_event_loop().time() as a message's timestamp.  No code of the
\* system reads the timestamp of a message, so its value is not tracked.
LoopTime == 0

\* BaseAgent.send_message: the AgentMessage it builds.
send_message(self, recipient, data, cid) ==
    AgentMessage(self, recipient,
                 IF data.type = "" THEN "generic" ELSE data.type,
                 data,
                 IF cid = "" THEN self \o "_" \o ToString(now) ELSE cid,
                 LoopTime)

\* The marker of a handler that raised instead of returning.
Raised == MakeData("raise", "", EmptyDict, "", FALSE, EmptyDict, <<>>, "", "", "", "")

\* _handle_message, lines 128-131: a dict without "type" becomes a task_response.
Normalize(response) ==
    IF response # None /\ response.type = ""
    THEN [response EXCEPT !.type = "task_response"]
    ELSE response

\* _handle_message, lines 142-147: the envelope of the except branch.
ErrorResponse(self, message) ==
    MakeData("task_response", "", EmptyDict, "error", FALSE, EmptyDict, <<>>, "", "",
             "Error in " \o self, message.correlation_id)

\* A runtime that answers under a correlation id of its own making.
HandleReplies_OwnId(self, message, response) ==
    IF response = Raised
    THEN <<send_message(self, message.sender, ErrorResponse(self, message), "")>>
    ELSE IF response # None /\ message.sender # "system"
         THEN <<send_message(self, message.sender, Normalize(response), "")>>
         ELSE <<>>

\* _handle_message after the handler has produced `response` (or Raised):
\* the messages it sends, as a sequence of at most one message.
HandleReplies(self, message, response) ==
    IF response = Raised
    THEN <<For(message.origin,
               send_message(self, message.sender, ErrorResponse(self, message),
                            message.correlation_id))>>
    ELSE IF response # None /\ message.sender # "system"
         THEN <<For(message.origin,
                    send_message(self, message.sender, Normalize(response),
                                 message.correlation_id))>>
         ELSE <<>>

\* _handle_message: the status it leaves behind (except branch, then finally).
HandleStatus(response) == IF response = Raised THEN "error" ELSE "idle"

\* A receive loop that a raising handler ends.
LoopSurvives_Dies(response) == response # Raised

\* _process_messages: does the loop survive the handling of a message?
LoopSurvives(response) == TRUE

RECURSIVE SendAll(_, _)
SendAll(queues, messages) ==
    IF messages = <<>> THEN queues
    ELSE SendAll(BusSend(queues, Head(messages)), Tail(messages))

\* The first occurrence of m removed from a sequence.
RECURSIVE RemoveFirst(_, _)
RemoveFirst(seq, m) ==
    IF seq = <<>> THEN <<>>
    ELSE IF Head(seq) = m THEN Tail(seq)
    ELSE <<Head(seq)>> \o RemoveFirst(Tail(seq), m)
\* dict.get(key) with "" for a missing key.
Get(dict, key) == IF key \in DOMAIN dict THEN dict[key] ELSE ""

\* ------------------------------------------------------ capability agents
\* The contact directory (data/contacts/contacts.csv): one contact.
ALICE_EMAIL == "alice@pes.edu"
AliceContact == [name |-> "Alice", email |-> ALICE_EMAIL, srn |-> "S1", prn |-> "P1"]

\* ContactAgent._find_contact: the first row one of whose fields contains the
\* lower-cased identifier; EmptyDict stands for None.
_find_contact(identifier) ==
    IF identifier \in {"Alice", ALICE_EMAIL} THEN AliceContact ELSE EmptyDict

\* ContactAgent.handle_message: the values it can return; the directory
\* search may raise (a contacts file without one of the four columns).
ContactHandle(message) ==
    IF message.data.type = "task" /\ message.data.action = "find_contact"
    THEN LET identifier == Get(message.data.parameters, "identifier") IN
         IF identifier = ""
         THEN {Reply("error", "Missing 'identifier' in parameters.")}
         ELSE {IF _find_contact(identifier) # EmptyDict
               THEN ReplyData("success", _find_contact(identifier))
               ELSE Reply("error", "No contact found"),
               Raised}
    ELSE {Reply("error", "Unknown action")}

\* The calendar backend's events, as CalendarAgent formats them.
Meeting1 == [id |-> "ev1", title |-> "Sync", start_time |-> "T0"]
Meeting2 == [id |-> "ev2", title |-> "Review", start_time |-> "T0"]

\* GoogleCalendarAPI.update_event: an updated event, None (an HttpError),
\* or an exception of another kind.
UpdateEvent(event_id, failure_reply) ==
    {ReplyData("success", [event_id |-> event_id, link |-> "http://cal/" \o event_id]),
     failure_reply, Raised}

\* CalendarAgent._reschedule_meeting after _get_contact_email returned
\* `email` ("" for None): list_events answers with zero, one or several
\* events or raises.
_reschedule_meeting(parameters, email) ==
    LET nst == Get(parameters, "new_start_time")
        net == Get(parameters, "new_end_time")
    IN  IF email = ""
        THEN {Reply("error", "No meetings found")}
        ELSE {Reply("error", "No meetings found"), Raised}
             \cup UpdateEvent(Meeting1.id, Reply("error", "Failed to update event."))
             \cup {AmbiguousReply("Found multiple meetings", <<Meeting1, Meeting2>>, nst, net)}

\* CalendarAgent._select_meeting_for_reschedule.
_select_meeting_for_reschedule(parameters) ==
    IF \/ Get(parameters, "meeting_id") = ""
       \/ Get(parameters, "new_start_time") = ""
       \/ Get(parameters, "new_end_time") = ""
    THEN {Reply("error", "Missing required parameters for selection.")}
    ELSE UpdateEvent(Get(parameters, "meeting_id"),
                     Reply("error", "Failed to update the selected event."))

\* CalendarAgent._cancel_meeting for a request that names no attendee (no
\* contact lookup): list_events answers with zero, one or several events
\* or raises; delete_event of the one event found returns True or False or
\* raises.
_cancel_meeting(parameters) ==
    IF Get(parameters, "start_time") = ""
    THEN {Reply("error", "Missing required 'start_time' to find meeting.")}
    ELSE {Reply("error", "No meetings found matching your criteria to cancel."),
          Reply("success", "Successfully cancelled meeting: " \o Meeting1.title),
          Reply("error", "Failed to delete the event from Google Calendar."),
          AmbiguousReply("Found multiple meetings. Please specify which one to cancel:",
                         <<Meeting1, Meeting2>>, "", ""),
          Raised}

\* CalendarAgent.handle_message enters _reschedule_meeting and that sends a
\* contact lookup: the handler suspends in _wait_for_response.
NeedsLookup(message) ==
    /\ message.data.type = "task"
    /\ message.data.action = "reschedule_meeting"
    /\ Get(message.data.parameters, "attendee") # ""
    /\ Get(message.data.parameters, "new_start_time") # ""
    /\ Get(message.data.parameters, "new_end_time") # ""

\* CalendarAgent.handle_message for the messages that need no lookup
\* (of its actions, reschedule_meeting, select_meeting and cancel_meeting
\* are modelled).
CalendarHandle(message) ==
    IF message.data.type # "task"
    THEN {Reply("error", "Invalid message type.")}
    ELSE IF message.data.action = "reschedule_meeting"
    THEN {Reply("error", "Missing required parameters for rescheduling.")}
    ELSE IF message.data.action = "select_meeting"
    THEN _select_meeting_for_reschedule(message.data.parameters)
    ELSE IF message.data.action = "cancel_meeting"
    THEN _cancel_meeting(message.data.parameters)
    ELSE {Reply("error", "Unknown action")}

\* EmailAgent.handle_message: gmail_api.send_email succeeds for all, for
\* some, or raises.
EmailHandle(message) ==
    IF message.data.type # "task"
    THEN {Reply("error", "Invalid message type.")}
    ELSE IF message.data.action = "send_email"
    THEN IF Get(message.data.parameters, "recipients") = ""
         THEN {Reply("error", "No recipients specified.")}
         ELSE {Reply("success", "Email successfully sent"),
               Reply("partial_success", "Email sent to some"), Raised}
    ELSE {Reply("error", "Unknown action")}

\* GeminiCore.handle_message: its return value ...
GeminiHandle(message) ==
    IF message.message_type = "task_response"
    THEN {None}
    ELSE {Reply("error", "Unhandled message type")}

\* ... and its effect on active_tasks.
GeminiStore(tasks, message) ==
    IF message.message_type = "task_response"
    THEN (message.correlation_id :> message.data) @@ tasks
    ELSE tasks

\* The handler an agent's _handle_message calls (no agent registers a
\* message-kind-specific handler, so it is always handle_message).
Handle(self, message) ==
    CASE self = GEMINI -> GeminiHandle(message)
      [] self = CONTACT -> ContactHandle(message)
      [] self = CALENDAR -> CalendarHandle(message)
      [] self = EMAIL -> EmailHandle(message)
\* ------------------------------------------------------------ receive loop
NoLookup == [correlation_id |-> "", start_time |-> 0]

\* What a receive loop did with the message it dispatched last: the message's
\* sender and correlation id, whether the handler raised, the messages
\* _handle_message sent, whether the agent's status was ERROR when the
\* message was taken, and whether _handle_message has ended.
LogEntry(message, raised, replies, after_error, done) ==
    [sender |-> message.sender, correlation_id |-> message.correlation_id,
     raised |-> raised,
     replies |-> [k \in 1..Len(replies) |->
                    [recipient |-> replies[k].recipient,
                     correlation_id |-> replies[k].correlation_id,
                     message_type |-> replies[k].message_type,
                     status |-> replies[k].data.status]],
     after_error |-> after_error, done |-> done]

NoLog == LogEntry(NoMessage, FALSE, <<>>, FALSE, TRUE)

\* The end of _handle_message for `message`, taken from mailbox table
\* `queues` / `order`, once the handler has produced `response`.
Finish(self, message, response, queues, order) ==
    LET replies == HandleReplies(self, message, response) IN
    /\ message_queues' = SendAll(queues, replies)
    /\ send_order' = SendAll(order, replies)
    /\ status' = [status EXCEPT ![self] = HandleStatus(response)]
    /\ task_alive' = [task_alive EXCEPT ![self] = LoopSurvives(response)]
    /\ handling' = [handling EXCEPT ![self] = NoMessage]
    /\ active_tasks' = IF self = GEMINI THEN GeminiStore(active_tasks, message)
                       ELSE active_tasks
    /\ task_origin' = IF self = GEMINI /\ message.message_type = "task_response"
                      THEN (message.correlation_id :> message.origin) @@ task_origin
                      ELSE task_origin
    /\ log' = [log EXCEPT ![self] =
                 LogEntry(message, response = Raised, replies,
                          IF handling[self] = NoMessage THEN status[self] = "error"
                          ELSE log[self].after_error,
                          TRUE)]

\* CalendarAgent._get_contact_email, lines 267-272: the lookup request.
LookupCid(identifier) ==
    "contact_lookup_" \o identifier \o "_" \o CALENDAR \o "_" \o ToString(lookups)

\* _process_messages: one message is taken from the agent's mailbox and
\* (the task waits in wait_for; it reads _running between two messages only)
\* _handle_message runs up to its end or, for a calendar action that looks
\* a contact up, up to the first sleep of _wait_for_response.
Dispatch(self) ==
    /\ Suspended
    /\ task_alive[self]
    /\ handling[self] = NoMessage
    /\ message_queue[self].shared
    /\ self \in DOMAIN message_queues
    /\ message_queues[self] # <<>>
    /\ LET message == Head(message_queues[self])
           queues == [message_queues EXCEPT ![self] = Tail(@)]
           order == [send_order EXCEPT ![self] = RemoveFirst(@, message)]
       IN  IF self = CALENDAR /\ NeedsLookup(message)
           THEN LET cid == LookupCid(message.data.parameters["attendee"])
                    request == For(message.origin,
                                   send_message(self, CONTACT,
                                       TaskData("find_contact",
                                                [identifier |-> message.data.parameters["attendee"]]),
                                       cid))
                IN  /\ message_queues' = BusSend(queues, request)
                    /\ send_order' = BusSend(order, request)
                    /\ status' = [status EXCEPT ![self] = "busy"]
                    /\ handling' = [handling EXCEPT ![self] = message]
                    /\ lookup' = [correlation_id |-> cid, start_time |-> now]
                    /\ lookups' = lookups + 1
                    /\ log' = [log EXCEPT ![self] =
                                 LogEntry(message, FALSE, <<>>, status[self] = "error", FALSE)]
                    /\ UNCHANGED <<task_alive, active_tasks, task_origin>>
           ELSE /\ \E response \in Handle(self, message) :
                       Finish(self, message, response, queues, order)
                /\ UNCHANGED <<lookup, lookups>>
    /\ UNCHANGED <<now, late, topic_vars, call, running, history, req_vars, life_vars, registry_vars>>

\* CalendarAgent._get_contact_email, lines 277-282: the email of a reply.
LookupEmail(data) ==
    IF data.status = "success" /\ data.has_data /\ "email" \in DOMAIN data.data
    THEN data.data["email"] ELSE ""

\* A wait that looks at the head of the mailbox and puts a copy of it at
\* the tail.
PutBack_Copy(queue) == Append(queue, Head(queue))

\* CalendarAgent._wait_for_response, lines 302-308: the message that
\* get_nowait took from the mailbox is put back, at the tail.
PutBack(queue) == Append(Tail(queue), Head(queue))

\* CalendarAgent._wait_for_response: one turn of its loop.  The head of the
\* agent's own mailbox is taken; the awaited reply ends the wait, any other
\* message is put back at the tail.  After the timeout the lookup yields None.
CalendarPoll ==
    LET self == CALENDAR
        message == handling[self]
    IN
    /\ task_alive[self]
    /\ message # NoMessage
    /\ message_queue[self].shared
    /\ IF now - lookup.start_time < LOOKUP_TIMEOUT
       THEN /\ self \in DOMAIN message_queues
            /\ message_queues[self] # <<>>
            /\ LET head == Head(message_queues[self]) IN
               IF head.correlation_id = lookup.correlation_id /\ head.message_type = "task_response"
               THEN /\ \E response \in _reschedule_meeting(message.data.parameters, LookupEmail(head.data)) :
                         Finish(self, message, response,
                                [message_queues EXCEPT ![self] = Tail(@)],
                                [send_order EXCEPT ![self] = RemoveFirst(@, head)])
                    /\ lookup' = NoLookup
               ELSE /\ message_queues' = [message_queues EXCEPT ![self] = PutBack(@)]
                    /\ message_queues' # message_queues
                    /\ UNCHANGED <<send_order, status, task_alive, handling, lookup, log,
                                   active_tasks, task_origin>>
       ELSE /\ \E response \in _reschedule_meeting(message.data.parameters, "") :
                 Finish(self, message, response, message_queues, send_order)
            /\ lookup' = NoLookup
    /\ UNCHANGED <<now, late, topic_vars, call, running, lookups, history, req_vars, life_vars, registry_vars>>
\* ------------------------------------------------------------ orchestrator
\* The steps a plan is made of.
FindStep == [agent |-> CONTACT, action |-> "find_contact",
             parameters |-> [identifier |-> "Alice"]]
\* The attendee is named by a placeholder for an earlier step's result ...
RescheduleStep == [agent |-> CALENDAR, action |-> "reschedule_meeting",
                   parameters |-> [attendee |-> "$alice_email",
                                   new_start_time |-> "T1", new_end_time |-> "T2"]]
\* ... or by name.
RescheduleByNameStep == [agent |-> CALENDAR, action |-> "reschedule_meeting",
                         parameters |-> [attendee |-> "Alice",
                                         new_start_time |-> "T1", new_end_time |-> "T2"]]
\* A step for an agent that is not registered.
GhostStep == [agent |-> "ghost_agent", action |-> "noop", parameters |-> EmptyDict]
\* A step that cancels the meeting of a time range.
CancelStep == [agent |-> CALENDAR, action |-> "cancel_meeting",
               parameters |-> [start_time |-> "T0", end_time |-> "T3"]]
StepKinds == {FindStep, RescheduleStep, RescheduleByNameStep, GhostStep}

\* The well-formed plans of at most n steps, each of one of `kinds`.
Plans(kinds, n) == UNION {[1..k -> kinds] : k \in 0..n}

\* What the planner call of _generate_task_plan can come to: the call raises,
\* its text is not JSON, the JSON has no "steps", or it is one of `plans`.
Outcomes(plans) ==
    {[kind |-> k, steps |-> <<>>] : k \in {"raises", "unparsable", "no_steps"}}
    \cup {[kind |-> "plan", steps |-> p] : p \in plans}

PlannerOutcomes == Outcomes(Plans(StepKinds, MaxSteps))

\* The strings of the model that start with "$", with what follows the "$"
\* (value[1:]).
PlaceholderKey == [v \in {"$alice_email", "$contact_agent.email", "$"} |->
                     CASE v = "$alice_email" -> "alice_email"
                       [] v = "$contact_agent.email" -> "contact_agent.email"
                       [] v = "$" -> ""]

\* The values of a parameter dict or of a context, by their Python type: a
\* string, a list, a dict, or something else (a number, say, given by its
\* text).  The items of a list and the values of a dict are values again.
Str(text) == [kind |-> "str", text |-> text, items |-> <<>>, entries |-> <<>>]
Other(text) == [kind |-> "other", text |-> text, items |-> <<>>, entries |-> <<>>]
List(items) == [kind |-> "list", text |-> "", items |-> items, entries |-> <<>>]
Dict(entries) == [kind |-> "dict", text |-> "", items |-> <<>>, entries |-> entries]

\* `isinstance(value, str) and value.startswith("$")`.
IsPlaceholder(value) == value.kind = "str" /\ value.text \in DOMAIN PlaceholderKey

\* `context.get(value[1:], value)`.
Lookup(value, ctx) ==
    IF PlaceholderKey[value.text] \in DOMAIN ctx THEN ctx[PlaceholderKey[value.text]] ELSE value

\* _resolve_parameters, lines 407-415: resolved[key] for one value.
Resolved(value, ctx) ==
    IF IsPlaceholder(value) THEN Lookup(value, ctx)
    ELSE IF value.kind = "list"
    THEN List([k \in DOMAIN value.items |->
                 IF IsPlaceholder(value.items[k]) THEN Lookup(value.items[k], ctx)
                 ELSE value.items[k]])
    ELSE value

\* GeminiCore._resolve_parameters.
ResolveParameters(parameters, ctx) ==
    [key \in DOMAIN parameters |-> Resolved(parameters[key], ctx)]

\* GeminiCore._resolve_parameters for the parameters of the plans above and
\* the contexts of their execution, whose values are all strings.
_resolve_parameters(parameters, ctx) ==
    [key \in DOMAIN parameters |->
        Resolved(Str(parameters[key]), [k \in DOMAIN ctx |-> Str(ctx[k])]).text]

\* The elements of a sequence.
Range(seq) == {seq[k] : k \in DOMAIN seq}

\* _extract_result_key, line 421.
priority_keys == <<"email", "event_id", "contact", "meeting_id">>

\* A search that goes through the dict's keys and takes the first one that
\* is a priority key.
_extract_result_key_First(keys) ==
    LET found == {k \in DOMAIN keys : keys[k] \in Range(priority_keys)} IN
    IF found # {} THEN keys[CHOOSE k \in found : \A j \in found : k <= j]
    ELSE IF keys = <<>> THEN "" ELSE Head(keys)

\* GeminiCore._extract_result_key for a dict whose keys are, in the order
\* of their insertion, `keys` ("" for None).
_extract_result_key(keys) ==
    IF "email" \in Range(keys) THEN "email"
    ELSE IF "event_id" \in Range(keys) THEN "event_id"
    ELSE IF "contact" \in Range(keys) THEN "contact"
    ELSE IF "meeting_id" \in Range(keys) THEN "meeting_id"
    ELSE IF keys = <<>> THEN ""
    ELSE Head(keys)

\* The keys of the data dicts the agents build, in the order the agents
\* insert them (a contact row; the calendar's event_id and link).
InsertionOrder == <<"name", "email", "srn", "prn", "event_id", "link">>
KeysOf(data) == SelectSeq(InsertionOrder, LAMBDA key : key \in DOMAIN data)

\* identifier.lower() with everything but letters and digits removed.
CleanedIdentifier(identifier) ==
    CASE identifier = "Alice" -> "alice"
      [] identifier = ALICE_EMAIL -> "alicepesedu"
      [] identifier = "$alice_email" -> "aliceemail"
      [] identifier = "$contact_agent.email" -> "contactagentemail"
      [] OTHER -> ""

\* _execute_task_plan, lines 267-296: the context after the value of
\* `result_key` ("" for None) has been published.
StoreUnder(ctx, agent_name, action, resolved, result_key, result_value) ==
    IF result_key # ""
    THEN LET cleaned == CleanedIdentifier(Get(resolved, "identifier"))
             scoped == IF agent_name = CONTACT /\ action = "find_contact"
                          /\ result_key = "email" /\ cleaned # ""
                       THEN ((cleaned \o "_email") :> result_value) @@ ctx
                       ELSE ctx
             context_key == agent_name \o "." \o result_key
         IN  IF context_key \in DOMAIN scoped THEN scoped
             ELSE (context_key :> result_value) @@ scoped
    ELSE ctx

\* _execute_task_plan, lines 263-296: the context after a response.
StoreResult(ctx, agent_name, action, resolved, response_data) ==
    IF response_data.status = "success" /\ response_data.has_data
    THEN LET result_key == _extract_result_key(KeysOf(response_data.data)) IN
         StoreUnder(ctx, agent_name, action, resolved, result_key,
                    Get(response_data.data, result_key))
    ELSE ctx

StepLabel(i) == "step_" \o ToString(i + 1)
ClarifiedLabel(i) == StepLabel(i) \o "_clarified"

\* _execute_task_plan, line 243.
StepCid(agent_name, action, i) ==
    agent_name \o "_" \o action \o "_" \o ToString(now) \o "_" \o ToString(i)

TimeoutResult(agent_name) == Reply("timeout", "Agent " \o agent_name \o " did not respond in time.")
ErrorResult == Reply("error", "exception")
FailedResult == Reply("failed", "Could not resolve ambiguity.")

\* process_user_request, lines 74-78: the except branch.  The transcript
\* entry of line 77 is a set display holding a dict, so building it raises
\* TypeError: nothing is appended and nothing is returned.
ExceptHandler(hist) == [pc |-> "raised", history |-> hist, reply |-> ""]

\* _generate_task_plan, lines 223-226: `return {{}}` raises TypeError in the
\* same way, so unparsable text ends in the caller's except branch.
ParseFailure == "raises"

UserTurn(r) == [role |-> "user", parts |-> "request " \o ToString(r)]
ModelTurn(text) == [role |-> "model", parts |-> text]

InFlight(r) == pc[r] \notin {"idle", "returned", "raised"}

RECURSIVE Planned(_)
\* The number of steps of the plans of requests 1..n.
Planned(n) == IF n = 0 THEN 0 ELSE Len(plan[n]) + Planned(n - 1)

\* A prompt that takes every listed number for the first meeting.
_handle_ambiguity_First(ambiguous_response, choice) ==
    LET meetings == ambiguous_response.meetings IN
    IF meetings = <<>> THEN EmptyDict
    ELSE IF choice - 1 >= 0 /\ choice - 1 < Len(meetings)
    THEN [meeting_id |-> meetings[1].id,
          new_start_time |-> ambiguous_response.new_start_time,
          new_end_time |-> ambiguous_response.new_end_time]
    ELSE EmptyDict

\* A prompt without a range check: the number typed indexes the list as it
\* is (index -1 is the last meeting).
_handle_ambiguity_Unchecked(ambiguous_response, choice) ==
    LET meetings == ambiguous_response.meetings IN
    IF meetings = <<>> THEN EmptyDict
    ELSE [meeting_id |-> meetings[((choice - 1) % Len(meetings)) + 1].id,
          new_start_time |-> ambiguous_response.new_start_time,
          new_end_time |-> ambiguous_response.new_end_time]

\* GeminiCore._handle_ambiguity: the clarification data for the answer typed
\* at the prompt; `choice` is the number typed, 0 for anything else.
\* EmptyDict stands for None.
_handle_ambiguity(ambiguous_response, choice) ==
    LET meetings == ambiguous_response.meetings IN
    IF meetings = <<>> THEN EmptyDict
    ELSE IF choice - 1 >= 0 /\ choice - 1 < Len(meetings)
    THEN [meeting_id |-> meetings[choice].id,
          new_start_time |-> ambiguous_response.new_start_time,
          new_end_time |-> ambiguous_response.new_end_time]
    ELSE EmptyDict

\* _handle_ambiguity, lines 354-363: input() is reached when the response
\* lists meetings.
Prompts(ambiguous_response) == ambiguous_response.meetings # <<>>

\* A prompt of _handle_ambiguity: the step it was for, the meetings listed
\* and the answer typed.
Prompt(label, meetings, choice) == [label |-> label, meetings |-> meetings, choice |-> choice]

\* The answers the prompt of _handle_ambiguity can get: a listed number, an
\* unusable answer (0), or end of input (-1: input() raises EOFError).
Choices(ambiguous_response) ==
    IF ambiguous_response.meetings = <<>> THEN {0}
    ELSE (-1) .. Len(ambiguous_response.meetings)

\* GeminiCore._wait_for_response, lines 338-340: the response stored under
\* the awaited correlation id is popped and returned to request r.
Pop(r, cid) ==
    /\ cid \in DOMAIN active_tasks
    /\ active_tasks' = [c \in DOMAIN active_tasks \ {cid} |-> active_tasks[c]]
    /\ task_origin' = [c \in DOMAIN task_origin \ {cid} |-> task_origin[c]]
    /\ answered' = [answered EXCEPT ![r] = @ \cup {task_origin[cid]}]

\* A wait that gives up a second early.
Waiting_Early(r) == now - start_time[r] < AGENT_TIMEOUT - 1

\* GeminiCore._wait_for_response, line 337: the loop condition.
Waiting(r) == now - start_time[r] < AGENT_TIMEOUT

Record(res, label, value) == (label :> value) @@ res

Sent(label, message) ==
    [label |-> label, recipient |-> message.recipient,
     action |-> message.data.action, correlation_id |-> message.correlation_id]

\* A request message leaves the orchestrator and _wait_for_response is
\* entered for it (its first look at active_tasks is the next Poll).
SendRequest(r, label, message, wait_pc) ==
    /\ message_queues' = BusSend(message_queues, message)
    /\ send_order' = BusSend(send_order, message)
    /\ correlation_id' = [correlation_id EXCEPT ![r] = message.correlation_id]
    /\ start_time' = [start_time EXCEPT ![r] = now]
    /\ sent' = [sent EXCEPT ![r] = Append(@, Sent(label, message))]
    /\ pc' = [pc EXCEPT ![r] = wait_pc]

\* process_user_request, lines 70-78: the summarizing planner call returns a
\* text, which closes the transcript, or raises.
Respond(r, hist) ==
    \E ok \in BOOLEAN :
       LET text == "reply " \o ToString(r)
           out == IF ok
                  THEN [pc |-> "returned", history |-> Append(hist, ModelTurn(text)), reply |-> text]
                  ELSE ExceptHandler(hist)
       IN  /\ pc' = [pc EXCEPT ![r] = out.pc]
           /\ history' = out.history
           /\ reply' = [reply EXCEPT ![r] = out.reply]

\* A plan execution that a failed step ends: the steps after a step whose
\* outcome is a timeout or an error are skipped.
Continue_Abort(r, p, i, res, ctx, hist) ==
    LET failed == i > 0 /\ StepLabel(i - 1) \in DOMAIN res
                  /\ res[StepLabel(i - 1)].status \in {"timeout", "error"}
    IN
    /\ plan' = [plan EXCEPT ![r] = p]
    /\ step' = [step EXCEPT ![r] = i]
    /\ results' = [results EXCEPT ![r] = res]
    /\ context' = [context EXCEPT ![r] = ctx]
    /\ IF i < Len(p) /\ ~failed
       THEN LET s == p[i + 1]
                resolved == _resolve_parameters(s.parameters, ctx)
                message == For(r, send_message(GEMINI, s.agent, TaskData(s.action, resolved),
                                               StepCid(s.agent, s.action, i)))
            IN  /\ SendRequest(r, StepLabel(i), message, "wait")
                /\ params' = [params EXCEPT ![r] = resolved]
                /\ history' = hist
                /\ UNCHANGED reply
       ELSE /\ Respond(r, hist)
            /\ UNCHANGED <<bus_vars, params, correlation_id, start_time, sent>>

\* _execute_task_plan from loop index i on, with `res` and `ctx` the results
\* and the context so far: lines 236-255 send the request of step i and the
\* task suspends in _wait_for_response; after the last step the function
\* returns and process_user_request goes on to its answer.  Nothing of this
\* suspends, so it is part of the action that got here.
Continue(r, p, i, res, ctx, hist) ==
    /\ plan' = [plan EXCEPT ![r] = p]
    /\ step' = [step EXCEPT ![r] = i]
    /\ results' = [results EXCEPT ![r] = res]
    /\ context' = [context EXCEPT ![r] = ctx]
    /\ IF i < Len(p)
       THEN LET s == p[i + 1]
                resolved == _resolve_parameters(s.parameters, ctx)
                message == For(r, send_message(GEMINI, s.agent, TaskData(s.action, resolved),
                                               StepCid(s.agent, s.action, i)))
            IN  /\ SendRequest(r, StepLabel(i), message, "wait")
                /\ params' = [params EXCEPT ![r] = resolved]
                /\ history' = hist
                /\ UNCHANGED reply
       ELSE /\ Respond(r, hist)
            /\ UNCHANGED <<bus_vars, params, correlation_id, start_time, sent>>

\* process_user_request from its call to the first suspension: the user turn
\* is appended, the planner is asked, and the plan's first request is sent.
\* The planner's answer is one of `outcomes`; the plans of a run have at most
\* `budget` steps together.  With `overlap` the call may be made while another
\* call is in progress; without, calls follow one another as in the loop of
\* main.py.  (Requests start in the order of their numbers.)
ProcessUserRequest(r, outcomes, budget, overlap) ==
    /\ pc[r] = "idle"
    /\ \A q \in Reqs : q < r => pc[q] # "idle"
    /\ overlap \/ \A q \in Reqs : ~InFlight(q)
    /\ \E outcome \in outcomes :
         /\ Len(outcome.steps) + Planned(MaxReqs) <= budget
         /\ planner' = [planner EXCEPT ![r] = outcome.kind]
         /\ LET hist == Append(history, UserTurn(r))
                kind == IF outcome.kind = "unparsable" THEN ParseFailure ELSE outcome.kind
                sorry == "I'm sorry, I couldn't understand how to fulfill that request."
                out == IF kind = "raises" THEN ExceptHandler(hist)
                       ELSE [pc |-> "returned", history |-> hist, reply |-> sorry]
            IN  IF kind \in {"raises", "no_steps"}
                THEN /\ pc' = [pc EXCEPT ![r] = out.pc]
                     /\ history' = out.history
                     /\ reply' = [reply EXCEPT ![r] = out.reply]
                     /\ UNCHANGED <<bus_vars, plan, step, params, correlation_id,
                                    start_time, results, context, sent>>
                ELSE Continue(r, outcome.steps, 0, results[r], context[r], hist)
    /\ UNCHANGED <<now, late, topic_vars, call, agent_vars, active_tasks, task_origin, answered,
                   asked, life_vars, registry_vars>>

\* main.py, line 106: the requests of the command loop, one after another.
StartRequest(r) == ProcessUserRequest(r, PlannerOutcomes, MaxSteps, FALSE)

\* process_user_request called while an earlier call is still in progress.
StartConcurrent(r) == ProcessUserRequest(r, PlannerOutcomes, MaxSteps, TRUE)

\* Requests for the contact agent and for an agent that is not registered.
LiveOutcomes == Outcomes(Plans({FindStep, GhostStep}, MaxSteps))
StartLive(r) == ProcessUserRequest(r, LiveOutcomes, MaxSteps, TRUE)

\* Requests that reschedule up to MaxFifoSteps meetings, with agents that
\* are up to MaxFifoLate seconds late.
FifoOutcomes == Outcomes(Plans({RescheduleByNameStep}, MaxFifoSteps))
StartFifo(r) == ProcessUserRequest(r, FifoOutcomes, MaxFifoSteps, FALSE)

\* _execute_task_plan, lines 301-320 and 326-328: the ambiguous outcome
\* recorded in `res` is put to the user; a selection is sent as a
\* select_meeting request, without one the retry is recorded as failed.
HandleAmbiguity(r, res, ctx) ==
    LET i == step[r]
        s == plan[r][i + 1]
        response_data == res[StepLabel(i)]
    IN  \E choice \in Choices(response_data) :
          /\ asked' = [asked EXCEPT ![r] =
                         IF Prompts(response_data)
                         THEN Append(@, Prompt(StepLabel(i), response_data.meetings, choice))
                         ELSE @]
          /\ IF choice = -1
             THEN Continue(r, plan[r], i + 1, Record(res, StepLabel(i), ErrorResult),
                           ctx, history)
             ELSE LET clarification_data == _handle_ambiguity(response_data, choice) IN
                  IF clarification_data # EmptyDict
                  THEN /\ SendRequest(r, ClarifiedLabel(i),
                                      For(r, send_message(GEMINI, s.agent,
                                                   TaskData("select_meeting", clarification_data),
                                                   correlation_id[r] \o "_clarified")),
                                      "wait_clarified")
                       /\ results' = [results EXCEPT ![r] = res]
                       /\ context' = [context EXCEPT ![r] = ctx]
                       /\ UNCHANGED <<plan, step, params, history, reply>>
                  ELSE Continue(r, plan[r], i + 1,
                                Record(res, ClarifiedLabel(i), FailedResult), ctx, history)

\* A plan execution that does not wait for a step's outcome.
Poll_NoWait(r) ==
    /\ pc[r] = "wait"
    /\ Continue(r, plan[r], step[r] + 1, results[r], context[r], history)
    /\ UNCHANGED <<now, late, topic_vars, call, agent_vars, planner, active_tasks, task_origin,
                   answered, asked, life_vars, registry_vars>>

\* The task wakes up in _wait_for_response for the step's request.  Within
\* the timeout a stored response is popped and _execute_task_plan goes on
\* with it (lines 259-320); after the timeout TimeoutError is raised and
\* recorded (lines 323-325).
Poll(r) ==
    /\ pc[r] = "wait"
    /\ LET i == step[r]
           s == plan[r][i + 1]
           cid == correlation_id[r]
       IN  IF Waiting(r)
           THEN /\ Pop(r, cid)
                /\ LET response_data == active_tasks[cid]
                       ctx == StoreResult(context[r], s.agent, s.action, params[r], response_data)
                       res == Record(results[r], StepLabel(i), response_data)
                   IN  IF response_data.status = "ambiguous"
                       THEN HandleAmbiguity(r, res, ctx)
                       ELSE /\ Continue(r, plan[r], i + 1, res, ctx, history)
                            /\ UNCHANGED asked
           ELSE /\ UNCHANGED <<active_tasks, task_origin, answered, asked>>
                /\ Continue(r, plan[r], i + 1,
                            Record(results[r], StepLabel(i), TimeoutResult(s.agent)),
                            context[r], history)
    /\ UNCHANGED <<now, late, topic_vars, call, agent_vars, planner, life_vars, registry_vars>>

\* The same for the select_meeting request (lines 316-317, 323-325).
PollClarified(r) ==
    /\ pc[r] = "wait_clarified"
    /\ LET i == step[r]
           s == plan[r][i + 1]
           cid == correlation_id[r]
       IN  IF Waiting(r)
           THEN /\ Pop(r, cid)
                /\ Continue(r, plan[r], i + 1,
                            Record(results[r], ClarifiedLabel(i), active_tasks[cid]),
                            context[r], history)
           ELSE /\ UNCHANGED <<active_tasks, task_origin, answered>>
                /\ Continue(r, plan[r], i + 1,
                            Record(results[r], StepLabel(i), TimeoutResult(s.agent)),
                            context[r], history)
    /\ UNCHANGED <<now, late, topic_vars, call, agent_vars, planner, asked, life_vars,
                   registry_vars>>


\* ------------------------------------------- helper functions, called alone
MaxParams == 2         \* parameters of a step

\* The keys of a step's parameters.
ParamKeys == <<"attendee", "note", "options">>
ParamNames == {ParamKeys[k] : k \in 1..(IF MaxParams < 3 THEN MaxParams ELSE 3)}

\* The values a planner gives to a parameter: strings that are placeholders
\* or not, a number, a list and a dict that hold a placeholder.
ParamValues ==
    {Str("$alice_email"), Str("$contact_agent.email"), Str("Alice"), Other("30"),
     List(<<Str("$alice_email"), Str("Bob"), Other("30")>>),
     Dict([to |-> Str("$alice_email"), cc |-> Str("Bob")])}

\* Dicts with some of `keys` and values of `values`.
Dicts(keys, values) == UNION {[ks -> values] : ks \in SUBSET keys}

\* The contexts of a plan execution: each of the two keys unset or set.
Contexts == Dicts({"alice_email", "contact_agent.email"}, {Str(ALICE_EMAIL), Str("bob@pes.edu")})

\* A call of _resolve_parameters: its arguments and, once it has returned,
\* its return value.
ResolveCall(parameters, ctx, done, result) ==
    [fn |-> "_resolve_parameters", parameters |-> parameters, context |-> ctx,
     done |-> done, result |-> result]

\* GeminiCore._resolve_parameters runs for the arguments of `call`.
CallResolveParameters ==
    /\ call.fn = "_resolve_parameters"
    /\ ~call.done
    /\ call' = ResolveCall(call.parameters, call.context, TRUE,
                           ResolveParameters(call.parameters, call.context))
    /\ UNCHANGED <<now, late, bus_vars, agent_vars, core_vars, req_vars, life_vars,
                   registry_vars, topic_vars>>

MaxKeys == 3           \* keys of a result data dict

\* The keys of a result data dict: the priority keys and two others.
DataKeys == {"email", "event_id", "contact", "meeting_id", "name", "link"}

\* The keys of a dict with at most n keys, in the order of their insertion.
KeyLists(n) ==
    {keys \in UNION {[1..m -> DataKeys] : m \in 0..n} :
        \A i, j \in DOMAIN keys : i # j => keys[i] # keys[j]}

\* A dict with these keys.
DataOf(keys) == [key \in Range(keys) |-> "value of " \o key]

\* The steps whose response is stored, and the contexts they find.
ExtractSteps ==
    {[agent |-> CONTACT, action |-> "find_contact"],
     [agent |-> CALENDAR, action |-> "schedule_meeting"]}
ExtractContexts == {EmptyDict, ("calendar_agent.event_id" :> "evt_0")}

\* A call of _extract_result_key on the data of a successful response to
\* `task`: the data's keys, the context before and, once the key has been
\* chosen and its value published, the key and the context after.
ExtractCall(task, keys, ctx, done, result, published) ==
    [fn |-> "_extract_result_key", step |-> task, keys |-> keys, context |-> ctx,
     done |-> done, result |-> result, published |-> published]

\* _execute_task_plan, lines 263-296, runs for the arguments of `call`.
CallExtractResultKey ==
    /\ call.fn = "_extract_result_key"
    /\ ~call.done
    /\ LET data == DataOf(call.keys)
           result_key == _extract_result_key(call.keys)
       IN  call' = ExtractCall(call.step, call.keys, call.context, TRUE, result_key,
                               StoreUnder(call.context, call.step.agent, call.step.action,
                                          [identifier |-> "Alice"], result_key,
                                          Get(data, result_key)))
    /\ UNCHANGED <<now, late, bus_vars, agent_vars, core_vars, req_vars, life_vars,
                   registry_vars, topic_vars>>

\* --------------------------------------------------------- agent lifecycle
MaxCalls == 2         \* start() and stop() calls made from outside in one run
MaxSends == 3         \* messages a client sends through the bus in one run

\* BaseAgent.message_queue.  `shared`: it is the queue object the bus holds
\* under the agent's name (AgentRegistry.register_agent wired it in);
\* otherwise it is a queue only the agent holds, with `items` in it.
SharedQueue == [shared |-> TRUE, items |-> <<>>]
PrivateQueue(items) == [shared |-> FALSE, items |-> items]

\* An entry of AgentRegistry.agents: a name and the agent object under it
\* (1: the object initialize_system makes, 2: another object of that name).
Entry(name, instance) == [name |-> name, instance |-> instance]

\* The table main.py's initialize_system builds.
INITIAL_AGENTS == <<Entry(GEMINI, 1), Entry(CALENDAR, 1), Entry(EMAIL, 1), Entry(CONTACT, 1)>>

\* The start_all_agents call.  pc: "idle" (not called), "run" (it runs),
\* "wait" (it awaits an on_start), "returned", "raised"; `names`: the part
\* of its snapshot `snapshot` still to start; `attempted`: the names it has
\* called start_agent for.
StartAll(pc_, names, snapshot, attempted) ==
    [pc |-> pc_, names |-> names, snapshot |-> snapshot, attempted |-> attempted]
NoStartAll == StartAll("idle", <<>>, <<>>, {})

\* A call of the registry that has ended: `n` flips with every call.
CallEnded(n, op, name, result) == [n |-> n, op |-> op, name |-> name, result |-> result]

\* How a start() call ended: how on_start ended ("none": it was not
\* called) and how start() ended towards its caller.  `n` flips with every
\* call that ends.
StartEnded(n, hook, outcome) == [n |-> n, hook |-> hook, outcome |-> outcome]

\* on_start of the four agents: the ways it can end ...
on_start(self) ==
    IF self = CONTACT THEN {"returned"} ELSE {"returned", "raised"}

\* ... whether it suspends before it ends (asyncio.to_thread) ...
HookSuspends(self) == self \in {CALENDAR, EMAIL}

\* ... and the status it leaves (the except branches set ERROR and re-raise).
HookStatus(outcome, status_now) ==
    IF outcome = "raised" THEN "error" ELSE status_now

\* A start() that swallows the failure of on_start.
StartOutcome_Swallowed(hook) == "returned"

\* BaseAgent.start, line 66: how start() ends when on_start ended with `hook`.
StartOutcome(hook) == hook

\* A task that goes on after Task.cancel().
cancel_Ignored(alive) == alive

\* Task.cancel() in stop(), line 78: can the task run more of its coroutine
\* than the handling of the CancelledError?
cancel(alive) == FALSE

\* A start() that does not look at _running.
AlreadyRunning_Never(self) == FALSE

\* BaseAgent.start, lines 54-56: the call returns at once.
AlreadyRunning(self) == running[self]

\* BaseAgent.start for `caller`, up to its return or up to the suspension
\* of on_start.
start(self, caller) ==
    /\ IF AlreadyRunning(self)
       THEN /\ last_start' = [last_start EXCEPT ![self] =
                                 StartEnded(1 - @.n, "none", "returned")]
            /\ UNCHANGED <<status, running, task_alive, hooks>>
       ELSE /\ running' = [running EXCEPT ![self] = TRUE]
            /\ task_alive' = [task_alive EXCEPT ![self] = TRUE]
            /\ IF HookSuspends(self)
               THEN /\ status' = [status EXCEPT ![self] = "idle"]
                    /\ hooks' = [hooks EXCEPT ![self] = Append(@, caller)]
                    /\ UNCHANGED last_start
               ELSE /\ \E hook \in on_start(self) :
                         /\ status' = [status EXCEPT ![self] = HookStatus(hook, "idle")]
                         /\ last_start' = [last_start EXCEPT ![self] =
                                             StartEnded(1 - @.n, hook, StartOutcome(hook))]
                    /\ UNCHANGED hooks
    /\ stopped' = [stopped EXCEPT ![self] = FALSE]
    /\ UNCHANGED <<handling, lookup, lookups, log, stops>>

\* on_start of the k-th suspended start() call of an agent ends, and with it
\* the start() call.
EndHook(self, k, hook) ==
    /\ hooks' = [hooks EXCEPT ![self] =
                   [j \in 1..(Len(@) - 1) |-> IF j < k THEN @[j] ELSE @[j + 1]]]
    /\ status' = [status EXCEPT ![self] = HookStatus(hook, @)]
    /\ last_start' = [last_start EXCEPT ![self] =
                        StartEnded(1 - @.n, hook, StartOutcome(hook))]
    /\ UNCHANGED <<running, task_alive, handling, lookup, lookups, log, stops, stopped>>

\* An entry of `stops`: a stop() call made by `caller` that awaits the task
\* it cancelled.  phase "busy" / "waiting": the task was cancelled inside a
\* handler / in its wait for a message and has not run since; "done": the
\* task has ended.
StopEntry(phase, caller) == [phase |-> phase, caller |-> caller]

\* stop() suspends: it cancels a live task and awaits it (lines 77-80).
StopSuspends(self) == running[self] /\ task_alive[self]

\* BaseAgent.stop called by `caller`, up to its return or up to
\* `await self._message_handler_task`.
stop(self, caller) ==
    /\ IF ~running[self]
       THEN /\ stopped' = [stopped EXCEPT ![self] = TRUE]
            /\ UNCHANGED <<status, running, task_alive, handling, lookup, stops>>
       ELSE /\ running' = [running EXCEPT ![self] = FALSE]
            /\ IF task_alive[self]
               THEN /\ task_alive' = [task_alive EXCEPT ![self] = cancel(@)]
                    /\ stops' = [stops EXCEPT ![self] =
                                   Append(@, StopEntry(IF handling[self] # NoMessage
                                                       THEN "busy" ELSE "waiting",
                                                       caller))]
                    /\ handling' = [handling EXCEPT ![self] =
                                      IF cancel(TRUE) THEN @ ELSE NoMessage]
                    /\ lookup' = IF self = CALENDAR /\ ~cancel(TRUE) THEN NoLookup ELSE lookup
                    /\ UNCHANGED <<status, stopped>>
               ELSE /\ status' = [status EXCEPT ![self] = "idle"]
                    /\ stopped' = [stopped EXCEPT ![self] = TRUE]
                    /\ UNCHANGED <<task_alive, handling, lookup, stops>>
    /\ UNCHANGED <<lookups, log, hooks, last_start>>

\* The cancelled task of the k-th suspended stop() call runs: the
\* CancelledError leaves _handle_message through its finally clause
\* (lines 153-155) and ends the loop (lines 105-107).
CancelDelivered(self, k) ==
    /\ k \in 1..Len(stops[self])
    /\ stops[self][k].phase \in {"busy", "waiting"}
    /\ stops' = [stops EXCEPT ![self][k].phase = "done"]
    /\ status' = [status EXCEPT ![self] =
                    IF stops[self][k].phase = "busy" /\ @ # "error" THEN "idle" ELSE @]
    /\ UNCHANGED <<running, task_alive, handling, lookup, lookups, log, hooks,
                   stopped, last_start>>

\* The k-th suspended stop() call goes on after its task has ended:
\* lines 84-87.
EndStop(self, k) ==
    /\ k \in 1..Len(stops[self])
    /\ stops[self][k].phase = "done"
    /\ stops' = [stops EXCEPT ![self] =
                   [j \in 1..(Len(@) - 1) |-> IF j < k THEN @[j] ELSE @[j + 1]]]
    /\ status' = [status EXCEPT ![self] = "idle"]
    /\ stopped' = [stopped EXCEPT ![self] = @ \/ ~running[self]]
    /\ UNCHANGED <<running, task_alive, handling, lookup, lookups, log, hooks, last_start>>

\* The agents whose start() and stop() are called from outside.
LifeAgents == {CALENDAR, GEMINI}

\* A call of start() from outside the registry.
StartCall(self) ==
    /\ calls < MaxCalls
    /\ calls' = calls + 1
    /\ start(self, "call")
    /\ UNCHANGED <<now, late, topic_vars, call, bus_vars, core_vars, req_vars, send_vars, registry_vars>>

\* on_start of a start() call ends that start_all_agents does not await.
HookDone(self) ==
    /\ Suspended
    /\ \E k \in 1..Len(hooks[self]) :
          /\ hooks[self][k] # "all"
          /\ \E hook \in on_start(self) : EndHook(self, k, hook)
    /\ UNCHANGED <<now, late, topic_vars, call, bus_vars, core_vars, req_vars, calls, send_vars,
                   registry_vars>>

\* A call of stop() from outside the registry.
StopCall(self) ==
    /\ calls < MaxCalls
    /\ calls' = calls + 1
    /\ stop(self, "call")
    /\ UNCHANGED <<now, late, topic_vars, call, bus_vars, core_vars, req_vars, send_vars, registry_vars>>

\* The event loop runs a cancelled receive-loop task.
TaskCancelled(self) ==
    /\ Suspended
    /\ \E k \in 1..Len(stops[self]) : CancelDelivered(self, k)
    /\ UNCHANGED <<now, late, topic_vars, call, bus_vars, core_vars, req_vars, calls, send_vars,
                   registry_vars>>

\* A suspended stop() call goes on that unregister_agent does not await.
StopDone(self) ==
    /\ Suspended
    /\ \E k \in 1..Len(stops[self]) :
          /\ stops[self][k].caller # "unregister"
          /\ EndStop(self, k)
    /\ UNCHANGED <<now, late, topic_vars, call, bus_vars, core_vars, req_vars, calls, send_vars,
                   registry_vars>>

\* The messages a client of the bus sends as its n-th: tasks for the
\* calendar agent under the sender name "system".
ClientMessages(n) ==
    {AgentMessage("system", CALENDAR, "task", data, "m" \o ToString(n), LoopTime) :
        data \in {TaskData("reschedule_meeting",
                           [attendee |-> "Alice", new_start_time |-> "T1",
                            new_end_time |-> "T2"]),
                  TaskData("select_meeting",
                           [meeting_id |-> Meeting1.id, new_start_time |-> "T1",
                            new_end_time |-> "T2"])}}

\* What the last send_message call of a client was given and returned.
SendEnded(message, result) == [message |-> message, result |-> result]

\* MessageBus.send_message called by a client with one of `messages`, as
\* one of at most max_sends calls.
ClientSend(messages, max_sends) ==
    /\ Suspended
    /\ sends < max_sends
    /\ sends' = sends + 1
    /\ \E message \in messages :
          /\ message_queues' = BusSend(message_queues, message)
          /\ send_order' = BusSend(send_order, message)
          /\ last_send' = SendEnded(message, BusSendResult(message_queues, message))
          /\ parked' = [a \in AgentNames |->
                          IF a = message.recipient /\ stopped[a]
                          THEN parked[a] \cup {message.correlation_id}
                          ELSE parked[a]]
    /\ UNCHANGED <<now, late, topic_vars, call, agent_vars, core_vars, req_vars, stops, hooks, stopped,
                   last_start, calls, registry_vars>>

\* MessageBus.send_message called by a client of the calendar agent.
Send == ClientSend(ClientMessages(sends + 1), MaxSends)

\* ---------------------------------------------------------------- registry
MaxRegistryCalls == 5  \* calls of the registry made from outside in one run
MaxRegistrySends == 2  \* messages a client sends in a run with registry calls

\* The names the registry is called with.
RegistryNames == {CALENDAR, CONTACT}

\* The names in the registry table.
Names(table) == {table[k].name : k \in 1..Len(table)}

\* A table in which no name is ever found.
Registered_Never(table, name) == FALSE

\* `agent.name in self.agents`.
Registered(table, name) == name \in Names(table)

\* `del self.agents[agent_name]`.
Remove(table, name) == SelectSeq(table, LAMBDA e : e.name # name)

\* A bus that makes a new mailbox at every registration.
BusRegister_Fresh(queues, name) == (name :> <<>>) @@ queues

\* MessageBus.register_agent: the queue table after the call.
BusRegister(queues, name) ==
    IF name \in DOMAIN queues THEN queues ELSE (name :> <<>>) @@ queues

\* A bus that keeps the mailbox of an unregistered name.
BusUnregister_Keep(queues, name) == queues

\* MessageBus.unregister_agent: the queue table after the call.
BusUnregister(queues, name) == [n \in DOMAIN queues \ {name} |-> queues[n]]

\* The agent's message_queue attribute once the bus has dropped the mailbox
\* of its name: the agent keeps the queue object it was wired to.
Dropped(self, queue) ==
    IF queue.shared /\ self \in DOMAIN message_queues
    THEN PrivateQueue(message_queues[self])
    ELSE PrivateQueue(queue.items)

\* An unregister_agent that keeps the registry lock while it stops the agent.
UnregisterLock_Held == "unregister"

\* unregister_agent, lines 66-76: the holder of the registry lock while the
\* call awaits agent.stop().
UnregisterLock == ""

\* unregister_agent, lines 75-80: what it does once agent.stop() has ended
\* with `outcome` ("returned" or "raised").
AfterStop(outcome) == "remove_mailbox"

\* BaseAgent.stop of the four agents: the ways it can end (no on_stop
\* raises, and the awaited task ends without an exception).
StopOutcomes == {"returned"}

\* AgentRegistry.register_agent for the agent object `instance` of `name`
\* (a second object of a name is offered only while the name is in the table).
RegisterAgent(name, instance) ==
    /\ Suspended
    /\ instance = 1 \/ name \in Names(agents)
    /\ lock = ""
    /\ calls < MaxRegistryCalls
    /\ calls' = calls + 1
    /\ IF Registered(agents, name)
       THEN /\ last_call' = CallEnded(1 - last_call.n, "register", name, FALSE)
            /\ UNCHANGED <<agents, message_queue, bus_vars>>
       ELSE /\ agents' = Append(agents, Entry(name, instance))
            /\ message_queues' = BusRegister(message_queues, name)
            /\ send_order' = BusRegister(send_order, name)
            /\ message_queue' = [message_queue EXCEPT ![name] = SharedQueue]
            /\ last_call' = CallEnded(1 - last_call.n, "register", name, TRUE)
    /\ UNCHANGED <<now, late, topic_vars, call, agent_vars, core_vars, req_vars, stops, hooks, stopped,
                   last_start, send_vars, lock, start_all, trail>>

\* unregister_agent, lines 80-82, after agent.stop() has ended.
RemoveMailbox(name, effects) ==
    /\ \E outcome \in StopOutcomes : AfterStop(outcome) = "remove_mailbox"
    /\ message_queues' = BusUnregister(message_queues, name)
    /\ send_order' = BusUnregister(send_order, name)
    /\ message_queue' = [message_queue EXCEPT ![name] = Dropped(name, @)]
    /\ trail' = [trail EXCEPT ![name] = effects \o <<"stopped", "mailbox_removed">>]
    /\ last_call' = CallEnded(1 - last_call.n, "unregister", name, TRUE)
    /\ lock' = ""

\* AgentRegistry.unregister_agent, up to its return or up to the
\* suspension of agent.stop().
UnregisterAgent(name) ==
    /\ Suspended
    /\ lock = ""
    /\ calls < MaxRegistryCalls
    /\ calls' = calls + 1
    /\ IF ~Registered(agents, name)
       THEN /\ last_call' = CallEnded(1 - last_call.n, "unregister", name, FALSE)
            /\ UNCHANGED <<agents, message_queue, bus_vars, agent_vars, stops, hooks,
                           stopped, last_start, lock, trail>>
       ELSE /\ agents' = Remove(agents, name)
            /\ stop(name, "unregister")
            /\ IF StopSuspends(name)
               THEN /\ trail' = [trail EXCEPT ![name] = <<"entry_removed">>]
                    /\ lock' = UnregisterLock
                    /\ UNCHANGED <<bus_vars, message_queue, last_call>>
               ELSE RemoveMailbox(name, <<"entry_removed">>)
    /\ UNCHANGED <<now, late, topic_vars, call, core_vars, req_vars, send_vars, start_all>>

\* unregister_agent goes on after the task its stop() awaited has ended.
UnregisterDone(name) ==
    /\ Suspended
    /\ \E k \in 1..Len(stops[name]) :
          /\ stops[name][k].caller = "unregister"
          /\ EndStop(name, k)
    /\ RemoveMailbox(name, <<"entry_removed">>)
    /\ UNCHANGED <<now, late, topic_vars, call, core_vars, req_vars, calls, send_vars, agents, start_all>>

\* A registry that calls the agent inside its `async with self._lock`.
AgentCallLock_Held(op) == op

\* start_agent, lines 91-98, and stop_agent, lines 108-115: the holder of
\* the registry lock while the call awaits agent.start() or agent.stop().
AgentCallLock(op) == ""

\* AgentRegistry.start_agent, up to its return or up to the suspension of
\* on_start.
StartAgent(name) ==
    /\ Suspended
    /\ lock = ""
    /\ calls < MaxRegistryCalls
    /\ calls' = calls + 1
    /\ IF ~Registered(agents, name)
       THEN /\ last_call' = CallEnded(1 - last_call.n, "start_agent", name, FALSE)
            /\ UNCHANGED <<agent_vars, stops, hooks, stopped, last_start, lock>>
       ELSE /\ start(name, "start_agent")
            /\ lock' = IF hooks'[name] # hooks[name] THEN AgentCallLock("start_agent") ELSE ""
            /\ UNCHANGED last_call
    /\ UNCHANGED <<now, late, topic_vars, call, bus_vars, core_vars, req_vars, send_vars, agents,
                   message_queue, start_all, trail>>

\* AgentRegistry.stop_agent, up to its return or up to the suspension of
\* agent.stop().
StopAgent(name) ==
    /\ Suspended
    /\ lock = ""
    /\ calls < MaxRegistryCalls
    /\ calls' = calls + 1
    /\ IF ~Registered(agents, name)
       THEN /\ last_call' = CallEnded(1 - last_call.n, "stop_agent", name, FALSE)
            /\ UNCHANGED <<agent_vars, stops, hooks, stopped, last_start, lock>>
       ELSE /\ stop(name, "stop_agent")
            /\ lock' = IF StopSuspends(name) THEN AgentCallLock("stop_agent") ELSE ""
            /\ UNCHANGED last_call
    /\ UNCHANGED <<now, late, topic_vars, call, bus_vars, core_vars, req_vars, send_vars, agents,
                   message_queue, start_all, trail>>

\* start_all_agents after the start_agent call for the head of `names` has
\* ended with `outcome`: the loop of lines 125-126 has no try.
AllGoesOn(outcome) ==
    IF outcome = "raised"
    THEN [start_all EXCEPT !.pc = "raised"]
    ELSE [start_all EXCEPT !.pc = "run", !.names = Tail(@)]

\* AgentRegistry.start_all_agents, lines 123-124: the snapshot.
StartAllAgents ==
    /\ lock = ""
    /\ calls < MaxRegistryCalls
    /\ calls' = calls + 1
    /\ start_all.pc = "idle"
    /\ LET names == [k \in 1..Len(agents) |-> agents[k].name]
       IN  start_all' = StartAll("run", names, names, {})
    /\ UNCHANGED <<now, late, topic_vars, call, bus_vars, agent_vars, core_vars, req_vars, stops, hooks,
                   stopped, last_start, send_vars, agents, message_queue, lock,
                   last_call, trail>>

\* start_all_agents, lines 125-126: one turn of its loop, up to the end of
\* start_agent or up to the suspension of on_start.
StartAllStep ==
    /\ start_all.pc = "run"
    /\ IF start_all.names = <<>>
       THEN /\ start_all' = [start_all EXCEPT !.pc = "returned"]
            /\ UNCHANGED <<agent_vars, stops, hooks, stopped, last_start>>
       ELSE LET name == Head(start_all.names)
                called == [start_all EXCEPT !.attempted = @ \cup {name}]
            IN  IF ~Registered(agents, name)
                THEN /\ start_all' = [called EXCEPT !.names = Tail(@)]
                     /\ UNCHANGED <<agent_vars, stops, hooks, stopped, last_start>>
                ELSE /\ start(name, "all")
                     /\ start_all' =
                           IF hooks'[name] # hooks[name]
                           THEN [called EXCEPT !.pc = "wait"]
                           ELSE [called EXCEPT
                                   !.pc = IF last_start'[name].outcome = "raised"
                                          THEN "raised" ELSE "run",
                                   !.names = IF last_start'[name].outcome = "raised"
                                             THEN @ ELSE Tail(@)]
    /\ UNCHANGED <<now, late, topic_vars, call, bus_vars, core_vars, req_vars, calls, send_vars, agents,
                   message_queue, lock, last_call, trail>>

\* The on_start that start_all_agents awaits ends.
StartAllHookDone(name) ==
    /\ start_all.pc = "wait"
    /\ \E k \in 1..Len(hooks[name]) :
          /\ hooks[name][k] = "all"
          /\ \E hook \in on_start(name) :
                /\ EndHook(name, k, hook)
                /\ start_all' = AllGoesOn(StartOutcome(hook))
    /\ UNCHANGED <<now, late, topic_vars, call, bus_vars, core_vars, req_vars, calls, send_vars, agents,
                   message_queue, lock, last_call, trail>>

\* _process_messages of an agent whose queue the bus does not hold: one
\* message is taken from it and handled.  (A calendar action that looks a
\* contact up would wait on this queue; the registry's clients send none.)
DispatchOwn(self) ==
    /\ Suspended
    /\ task_alive[self]
    /\ handling[self] = NoMessage
    /\ ~message_queue[self].shared
    /\ message_queue[self].items # <<>>
    /\ LET message == Head(message_queue[self].items) IN
       /\ ~(self = CALENDAR /\ NeedsLookup(message))
       /\ \E response \in Handle(self, message) :
             Finish(self, message, response, message_queues, send_order)
    /\ message_queue' = [message_queue EXCEPT ![self].items = Tail(@)]
    /\ UNCHANGED <<now, late, topic_vars, call, running, lookup, lookups, history, req_vars, life_vars,
                   agents, lock, start_all, last_call, trail>>

\* The messages a client of the registry's agents sends as its n-th.
RegistryMessages(n) ==
    {AgentMessage("system", CALENDAR, "task",
                  TaskData("select_meeting",
                           [meeting_id |-> Meeting1.id, new_start_time |-> "T1",
                            new_end_time |-> "T2"]),
                  "m" \o ToString(n), LoopTime),
     AgentMessage("system", CONTACT, "task",
                  TaskData("find_contact", [identifier |-> "Alice"]),
                  "m" \o ToString(n), LoopTime)}

\* MessageBus.send_message called by a client of the registry's agents.
RegistrySend == ClientSend(RegistryMessages(sends + 1), MaxRegistrySends)

\* ------------------------------------------------------- bus operations
MaxBusOps == 5         \* calls of the bus a client makes in one run

\* The names and the topics a client calls the bus with.
BusNames == {CALENDAR, CONTACT}
Topics == {"meetings", "mail"}

\* The bus operation a client made last: its number, its arguments and
\* whether it raised.
OpEnded(n, op, name, topic, message, exclude_sender, raised) ==
    [n |-> n, op |-> op, name |-> name, topic |-> topic, message |-> message,
     exclude_sender |-> exclude_sender, raised |-> raised]

NoOp == OpEnded(0, "", "", "", NoMessage, FALSE, FALSE)

\* No helper function has been called.
NoCall == [fn |-> ""]

\* The messages a client hands to the bus as its n-th operation: the sender
\* is a registered name or the synthetic sender, the timestamp the client's
\* clock reading.
BusMessages(n, recipients) ==
    {AgentMessage(sender, recipient, "task", TaskData("announce", [text |-> "hello"]),
                  "b" \o ToString(n), n) :
        sender \in BusNames \cup {"system"}, recipient \in recipients}

\* A copy that keeps the recipient of the message it was made from.
Copy_SameRecipient(message, agent_name) == message

\* broadcast_message, lines 91-98, and publish_to_topic, lines 148-155: the
\* copy of a message made for one recipient.
Copy(message, agent_name) ==
    AgentMessage(message.sender, agent_name, message.message_type, message.data,
                 message.correlation_id, message.timestamp)

\* MessageBus.broadcast_message: the queue table after the call.
Broadcast(queues, message, exclude_sender) ==
    [agent_name \in DOMAIN queues |->
        IF exclude_sender /\ agent_name = message.sender
        THEN queues[agent_name]
        ELSE Append(queues[agent_name], Copy(message, agent_name))]

\* MessageBus.subscribe_to_topic: the subscriber table after the call.
Subscribe(subs, agent_name, topic) ==
    LET known == IF topic \in DOMAIN subs THEN subs ELSE (topic :> <<>>) @@ subs IN
    IF \E k \in 1..Len(known[topic]) : known[topic][k] = agent_name
    THEN known
    ELSE [known EXCEPT ![topic] = Append(@, agent_name)]

\* MessageBus.unsubscribe_from_topic: the subscriber table after the call
\* (list.remove takes the first occurrence out).
Unsubscribe(subs, agent_name, topic) ==
    IF topic \in DOMAIN subs
    THEN [subs EXCEPT ![topic] = RemoveFirst(@, agent_name)]
    ELSE subs

\* publish_to_topic, lines 146-157: the loop over the subscribers `names`.
\* `self.message_queues[agent_name]` raises KeyError for a name without a
\* mailbox, which ends the loop and the call.
RECURSIVE Fanout(_, _, _)
Fanout(queues, names, message) ==
    IF names = <<>> THEN [queues |-> queues, raised |-> FALSE]
    ELSE IF Head(names) \notin DOMAIN queues THEN [queues |-> queues, raised |-> TRUE]
    ELSE Fanout([queues EXCEPT ![Head(names)] = Append(@, Copy(message, Head(names)))],
                Tail(names), message)

\* MessageBus.publish_to_topic: the queue table after the call and whether
\* the call raised.
Publish(queues, subs, topic, message) ==
    IF topic \notin DOMAIN subs THEN [queues |-> queues, raised |-> FALSE]
    ELSE Fanout(queues, subs[topic], message)

\* The end of a client's call of a bus method: the mailbox table is
\* `queues` (and the record of the sends `order`), the subscriber table `subs`.
BusOp(ended, queues, order, subs) ==
    /\ bus_lock = ""
    /\ bus_lock' = ""
    /\ last_op' = [ended EXCEPT !.n = last_op.n + 1]
    /\ message_queues' = queues
    /\ send_order' = order
    /\ subscribers' = subs
    /\ UNCHANGED <<now, late, call, agent_vars, core_vars, req_vars, life_vars, registry_vars>>

\* MessageBus.register_agent.
OpRegister(agent_name) ==
    /\ last_op.n < MaxBusOps
    /\ BusOp(OpEnded(0, "register", agent_name, "", NoMessage, FALSE, FALSE),
             BusRegister(message_queues, agent_name), BusRegister(send_order, agent_name),
             subscribers)

\* MessageBus.unregister_agent.
OpUnregister(agent_name) ==
    /\ last_op.n < MaxBusOps
    /\ BusOp(OpEnded(0, "unregister", agent_name, "", NoMessage, FALSE, FALSE),
             BusUnregister(message_queues, agent_name),
             BusUnregister(send_order, agent_name), subscribers)

\* MessageBus.send_message.
OpSend ==
    /\ last_op.n < MaxBusOps
    /\ \E message \in BusMessages(last_op.n + 1, BusNames) :
          BusOp(OpEnded(0, "send", "", "", message, FALSE, FALSE),
                BusSend(message_queues, message), BusSend(send_order, message),
                subscribers)

\* MessageBus.broadcast_message.
OpBroadcast ==
    /\ last_op.n < MaxBusOps
    /\ \E message \in BusMessages(last_op.n + 1, {"all"}), exclude_sender \in BOOLEAN :
          BusOp(OpEnded(0, "broadcast", "", "", message, exclude_sender, FALSE),
                Broadcast(message_queues, message, exclude_sender),
                Broadcast(send_order, message, exclude_sender), subscribers)

\* MessageBus.subscribe_to_topic.
OpSubscribe(agent_name, topic) ==
    /\ last_op.n < MaxBusOps
    /\ BusOp(OpEnded(0, "subscribe", agent_name, topic, NoMessage, FALSE, FALSE),
             message_queues, send_order, Subscribe(subscribers, agent_name, topic))

\* MessageBus.unsubscribe_from_topic.
OpUnsubscribe(agent_name, topic) ==
    /\ last_op.n < MaxBusOps
    /\ BusOp(OpEnded(0, "unsubscribe", agent_name, topic, NoMessage, FALSE, FALSE),
             message_queues, send_order, Unsubscribe(subscribers, agent_name, topic))

\* MessageBus.publish_to_topic.
OpPublish(topic) ==
    /\ last_op.n < MaxBusOps
    /\ \E message \in BusMessages(last_op.n + 1, {topic}) :
          LET published == Publish(message_queues, subscribers, topic, message) IN
          BusOp(OpEnded(0, "publish", "", topic, message, FALSE, published.raised),
                published.queues, Publish(send_order, subscribers, topic, message).queues,
                subscribers)

\* get_agent_queue, lines 171-175: the holder of the bus lock when the call
\* has run as far as it can.  For a name without a mailbox the call awaits
\* register_agent inside its own `async with self._lock`; register_agent
\* waits for that lock (an asyncio.Lock is not reentrant), so the call stays
\* suspended with the lock held.
GetQueueLock(queues, agent_name) ==
    IF agent_name \in DOMAIN queues THEN "" ELSE "get_agent_queue"

\* MessageBus.get_agent_queue, up to its return or up to the suspension it
\* does not come back from.
OpGetQueue(agent_name) ==
    /\ last_op.n < MaxBusOps
    /\ IF GetQueueLock(message_queues, agent_name) = ""
       THEN BusOp(OpEnded(0, "get_agent_queue", agent_name, "", NoMessage, FALSE, FALSE),
                  message_queues, send_order, subscribers)
       ELSE /\ bus_lock = ""
            /\ bus_lock' = GetQueueLock(message_queues, agent_name)
            /\ UNCHANGED <<now, late, call, bus_vars, subscribers, last_op, agent_vars,
                           core_vars, req_vars, life_vars, registry_vars>>

\* ------------------------------------------------------------------- time
\* Somebody sleeps in a wait loop whose timeout has not passed yet.
SomeoneWaits ==
    \/ \E r \in Reqs : pc[r] \in {"wait", "wait_clarified"} /\ Waiting(r)
    \/ handling[CALENDAR] # NoMessage /\ now - lookup.start_time < LOOKUP_TIMEOUT

\* A task could run: a receive loop has a message to take, the calendar
\* agent's wait has one to look at or has timed out, or a wait of the
\* orchestrator has its response or has timed out.
Ready ==
    \/ \E a \in AgentNames :
          /\ running[a] /\ task_alive[a]
          /\ IF handling[a] = NoMessage THEN message_queues[a] # <<>>
             ELSE \/ now - lookup.start_time >= LOOKUP_TIMEOUT
                  \/ /\ message_queues[a] # <<>>
                     /\ \/ Head(message_queues[a]).correlation_id = lookup.correlation_id
                        \/ Append(Tail(message_queues[a]), Head(message_queues[a]))
                              # message_queues[a]
    \/ \E r \in Reqs :
          /\ pc[r] \in {"wait", "wait_clarified"}
          /\ Waiting(r) => correlation_id[r] \in DOMAIN active_tasks

\* A second passes: while all tasks sleep and one of them waits for its
\* timeout, or else as one of at most max_late seconds.
Tick(max_late) ==
    /\ IF SomeoneWaits /\ ~Ready THEN late' = late
       ELSE late < max_late /\ late' = late + 1
    /\ now' = now + 1
    /\ UNCHANGED <<bus_vars, agent_vars, core_vars, req_vars, life_vars, registry_vars,
                   topic_vars, call>>

\* ---------------------------------------------------------- specification
\* The state of the program with the agent objects made, the agents of
\* `table` registered (each with its mailbox) and, if `started`, all agents
\* started; no request made yet.  (`call` is set by each specification.)
InitState(table, started) ==
    /\ now = 0
    /\ late = 0
    /\ message_queues = [a \in Names(table) |-> <<>>]
    /\ send_order = [a \in Names(table) |-> <<>>]
    /\ status = [a \in AgentNames |-> IF started THEN "idle" ELSE "initializing"]
    /\ running = [a \in AgentNames |-> started]
    /\ task_alive = [a \in AgentNames |-> started]
    /\ handling = [a \in AgentNames |-> NoMessage]
    /\ lookup = NoLookup
    /\ lookups = 0
    /\ log = [a \in AgentNames |-> NoLog]
    /\ active_tasks = [c \in {} |-> None]
    /\ history = <<>>
    /\ pc = [r \in Reqs |-> "idle"]
    /\ plan = [r \in Reqs |-> <<>>]
    /\ step = [r \in Reqs |-> 0]
    /\ params = [r \in Reqs |-> EmptyDict]
    /\ correlation_id = [r \in Reqs |-> ""]
    /\ start_time = [r \in Reqs |-> 0]
    /\ results = [r \in Reqs |-> [l \in {} |-> None]]
    /\ context = [r \in Reqs |-> EmptyDict]
    /\ reply = [r \in Reqs |-> ""]
    /\ sent = [r \in Reqs |-> <<>>]
    /\ planner = [r \in Reqs |-> ""]
    /\ task_origin = [c \in {} |-> 0]
    /\ answered = [r \in Reqs |-> {}]
    /\ stops = [a \in AgentNames |-> <<>>]
    /\ hooks = [a \in AgentNames |-> <<>>]
    /\ stopped = [a \in AgentNames |-> FALSE]
    /\ last_start = [a \in AgentNames |->
                       StartEnded(1, IF started THEN "returned" ELSE "none", "returned")]
    /\ calls = 0
    /\ sends = 0
    /\ parked = [a \in AgentNames |-> {}]
    /\ last_send = SendEnded(NoMessage, FALSE)
    /\ agents = table
    /\ message_queue = [a \in AgentNames |->
                          IF a \in Names(table) THEN SharedQueue ELSE PrivateQueue(<<>>)]
    /\ lock = ""
    /\ start_all = NoStartAll
    /\ last_call = CallEnded(1, "", "", FALSE)
    /\ trail = [a \in AgentNames |-> <<>>]
    /\ subscribers = [t \in {} |-> <<>>]
    /\ last_op = NoOp
    /\ bus_lock = ""
    /\ asked = [r \in Reqs |-> <<>>]

\* The state main.py's initialize_system leaves: the four agents registered
\* and started.
Init == InitState(INITIAL_AGENTS, TRUE) /\ call = NoCall

Next ==
    \/ \E r \in Reqs : StartRequest(r)
    \/ \E r \in Reqs : Poll(r)
    \/ \E r \in Reqs : PollClarified(r)
    \/ \E a \in AgentNames : Dispatch(a)
    \/ CalendarPoll
    \/ Tick(MaxLate)

Spec == Init /\ [][Next]_vars

\* The agents' part of every next-state relation.
AgentsNext(max_late) ==
    \/ \E r \in Reqs : Poll(r)
    \/ \E r \in Reqs : PollClarified(r)
    \/ \E a \in AgentNames : Dispatch(a)
    \/ CalendarPoll
    \/ Tick(max_late)

\* Calls of process_user_request that overlap.
ConcurrentNext == (\E r \in Reqs : StartConcurrent(r)) \/ AgentsNext(MaxLate)
ConcurrentSpec == Init /\ [][ConcurrentNext]_vars

\* Runs of requests for the contact agent and for an agent that is not
\* registered, under the event loop's scheduling: a task that can run does
\* run (receive loops and waits wake up from their sleeps), and time passes.
LiveNext ==
    \/ \E r \in Reqs : StartLive(r)
    \/ \E r \in Reqs : Poll(r)
    \/ \E a \in AgentNames : Dispatch(a)
    \/ Tick(MaxLate)
LiveSpec ==
    /\ Init /\ [][LiveNext]_vars
    /\ WF_vars(Tick(MaxLate))
    /\ \A r \in Reqs : WF_vars(Poll(r))
    /\ \A a \in AgentNames : WF_vars(Dispatch(a))

\* Runs that only reschedule meetings.
FifoNext == (\E r \in Reqs : StartFifo(r)) \/ AgentsNext(MaxFifoLate)
FifoSpec == Init /\ [][FifoNext]_vars

\* Requests whose plans cancel and reschedule meetings, MaxCancelSteps steps
\* in a run.
MaxCancelSteps == 2
CancelOutcomes == Outcomes(Plans({CancelStep, RescheduleByNameStep}, MaxCancelSteps))
StartCancel(r) == ProcessUserRequest(r, CancelOutcomes, MaxCancelSteps, FALSE)
CancelNext == (\E r \in Reqs : StartCancel(r)) \/ AgentsNext(MaxLate)
CancelSpec == Init /\ [][CancelNext]_vars

\* One request that reschedules meetings, under the event loop's
\* scheduling: a task that can run does run, and time passes.
ConsumeNext == StartFifo(1) \/ AgentsNext(MaxLate)
ConsumeSpec ==
    /\ Init /\ [][ConsumeNext]_vars
    /\ WF_vars(Tick(MaxLate))
    /\ \A r \in Reqs : WF_vars(Poll(r)) /\ WF_vars(PollClarified(r))
    /\ \A a \in AgentNames : WF_vars(Dispatch(a))
    /\ WF_vars(CalendarPoll)

\* Runs in which agents are stopped and started again while a client sends
\* them messages.  No orchestrator request is made and no wait times out.
LifeNext ==
    \/ \E a \in LifeAgents : StartCall(a)
    \/ \E a \in LifeAgents : HookDone(a)
    \/ \E a \in LifeAgents : StopCall(a)
    \/ \E a \in LifeAgents : TaskCancelled(a)
    \/ \E a \in LifeAgents : StopDone(a)
    \/ Send
    \/ \E a \in AgentNames : Dispatch(a)
    \/ CalendarPoll
LifeSpec == Init /\ [][LifeNext]_vars

\* The state before main.py's initialize_system registers the agents: the
\* agent objects exist, the registry and the bus are empty.
RegistryInit == InitState(<<>>, FALSE) /\ call = NoCall

\* The state between the registrations and the start_all_agents call of
\* initialize_system.
RegisteredInit == InitState(INITIAL_AGENTS, FALSE) /\ call = NoCall

\* Runs in which the registry is called from concurrent tasks while a
\* client sends messages.  A start_all_agents call runs without
\* interruption up to its next suspension.
RegistryNext ==
    \/ \E name \in RegistryNames, instance \in {1, 2} : RegisterAgent(name, instance)
    \/ \E name \in RegistryNames : UnregisterAgent(name)
    \/ \E name \in RegistryNames : UnregisterDone(name)
    \/ \E name \in RegistryNames : StartAgent(name)
    \/ \E name \in RegistryNames : StopAgent(name)
    \/ \E a \in RegistryNames : HookDone(a)
    \/ \E a \in RegistryNames : TaskCancelled(a)
    \/ \E a \in RegistryNames : StopDone(a)
    \/ RegistrySend
    \/ \E a \in RegistryNames : Dispatch(a)
    \/ \E a \in RegistryNames : DispatchOwn(a)
RegistrySpec == RegistryInit /\ [][RegistryNext]_vars

\* Runs of initialize_system's start_all_agents call, while a client sends
\* messages and a concurrent task unregisters agents.  The call runs
\* without interruption up to its next suspension.
StartAllNext ==
    \/ StartAllAgents
    \/ StartAllStep
    \/ \E name \in AgentNames : StartAllHookDone(name)
    \/ \E name \in RegistryNames : UnregisterAgent(name)
    \/ \E name \in RegistryNames : UnregisterDone(name)
    \/ \E a \in RegistryNames : TaskCancelled(a)
    \/ RegistrySend
    \/ \E a \in AgentNames : Dispatch(a)
StartAllSpec == RegisteredInit /\ [][StartAllNext]_vars

\* Runs in which a client calls the bus directly: nothing is registered at
\* first, and no agent is started, so that what is put into a mailbox stays.
BusNext ==
    \/ \E name \in BusNames : OpRegister(name)
    \/ \E name \in BusNames : OpUnregister(name)
    \/ OpSend
    \/ OpBroadcast
    \/ \E name \in BusNames, topic \in Topics : OpSubscribe(name, topic)
    \/ \E name \in BusNames, topic \in Topics : OpUnsubscribe(name, topic)
    \/ \E topic \in Topics : OpPublish(topic)
    \/ \E name \in BusNames : OpGetQueue(name)
BusSpec == RegistryInit /\ [][BusNext]_vars

\* _resolve_parameters called with a step's parameters and a context.
ResolveInit ==
    /\ InitState(INITIAL_AGENTS, TRUE)
    /\ call \in {ResolveCall(parameters, ctx, FALSE, EmptyDict) :
                    parameters \in Dicts(ParamNames, ParamValues), ctx \in Contexts}
ResolveNext == CallResolveParameters
ResolveSpec == ResolveInit /\ [][ResolveNext]_vars

\* _extract_result_key called with the data of a successful response.
ExtractInit ==
    /\ InitState(INITIAL_AGENTS, TRUE)
    /\ call \in {ExtractCall(task, keys, ctx, FALSE, "", ctx) :
                    task \in ExtractSteps, keys \in KeyLists(MaxKeys),
                    ctx \in ExtractContexts}
ExtractNext == CallExtractResultKey
ExtractSpec == ExtractInit /\ [][ExtractNext]_vars

\* ------------------------------------------------------------- properties
Finished(r) == pc[r] \in {"returned", "raised"}

\* C1: with several requests in flight, a wait returns only a reply that was
\* made for a request message of the waiting request itself: no waiter gets
\* the reply that belongs to another request.
C1_NoCrossWiring == \A r \in Reqs : answered[r] \subseteq {r}

\* The step requests among the messages request r has sent (the others are
\* select_meeting retries).
IsStepRequest(r, e) == \E i \in 0..Len(plan[r]) - 1 : e.label = StepLabel(i)

\* An outcome is recorded for a message request r has sent: under its own
\* label or, for a retry that timed out, as the timeout of its step.
Recorded(r, e) ==
    \/ e.label \in DOMAIN results[r]
    \/ \E i \in 0..Len(plan[r]) - 1 :
          /\ e.label = ClarifiedLabel(i)
          /\ StepLabel(i) \in DOMAIN results[r]
          /\ results[r][StepLabel(i)].status = "timeout"

Outstanding(r) == {k \in DOMAIN sent[r] : ~Recorded(r, sent[r][k])}

\* C2: the request of step i+1 is sent only when an outcome of step i (for
\* an ambiguous one, of its retry too) is in the results map, and at most one
\* request of a plan, the one sent last, is without an outcome.
C2_Sequential ==
    \A r \in Reqs :
       /\ Outstanding(r) \subseteq {Len(sent[r])}
       /\ Outstanding(r) # {} => pc[r] \in {"wait", "wait_clarified"}
       /\ \A k \in DOMAIN sent[r] : \A i \in 1..Len(plan[r]) - 1 :
             sent[r][k].label = StepLabel(i) =>
                /\ StepLabel(i - 1) \in DOMAIN results[r]
                /\ results[r][StepLabel(i - 1)].status = "ambiguous"
                      => ClarifiedLabel(i - 1) \in DOMAIN results[r]

\* A second step has been sent (after an ambiguous first step and its retry).
C2_Witness ==
    \E r \in Reqs : \E k \in DOMAIN sent[r] :
       /\ sent[r][k].label = StepLabel(1)
       /\ k = 3

\* C3: messages are dispatched from a mailbox in the order they were sent
\* to it: whenever a receive loop is about to take a message, the head of
\* its mailbox is the oldest undispatched message sent to the agent.  This
\* includes the calendar agent, which waits for nested replies.
C3_FifoPerMailbox ==
    \A a \in AgentNames :
       handling[a] = NoMessage /\ message_queues[a] # <<>> =>
          Head(message_queues[a]) = Head(send_order[a])

\* C4: every message a receive loop sends for a message q that carries a
\* correlation id goes to q's sender under q's correlation id.
C4_ReplyEchoesId ==
    \A a \in AgentNames :
       log[a].correlation_id # "" =>
          \A k \in DOMAIN log[a].replies :
             /\ log[a].replies[k].recipient = log[a].sender
             /\ log[a].replies[k].correlation_id = log[a].correlation_id

\* An agent has answered a request with a normal response, another with the
\* error envelope.
C4_Witness ==
    /\ \E a \in AgentNames :
          /\ log[a].correlation_id # "" /\ ~log[a].raised
          /\ log[a].replies # <<>> /\ log[a].replies[1].status = "success"
    /\ \E a \in AgentNames :
          /\ log[a].correlation_id # "" /\ log[a].raised /\ log[a].replies # <<>>

\* C5: every call of process_user_request returns a reply text; none ends
\* with an exception, whichever stage fails.
C5_AlwaysReplies ==
    \A r \in Reqs : pc[r] # "raised" /\ (pc[r] = "returned" => reply[r] # "")

\* C6: when no request is being processed, the transcript is made of pairs
\* of a user turn and the model turn that closes it.
C6_TranscriptPairs ==
    (\A r \in Reqs : ~InFlight(r)) =>
       /\ Len(history) % 2 = 0
       /\ \A k \in DOMAIN history :
             history[k].role = IF k % 2 = 1 THEN "user" ELSE "model"

\* The requests sent for the steps of request r's plan, in the order sent.
StepRequests(r) == SelectSeq(sent[r], LAMBDA e : IsStepRequest(r, e))

\* The number of steps plan execution is through with.
Attempted(r) == IF Finished(r) THEN Len(plan[r]) ELSE step[r]

\* C7: plan execution sends the requests of the steps in the plan's order,
\* one each, and every step it is through with has an outcome under its
\* label; at the end these are all steps of the plan, whatever failed.
C7_AllStepsAttempted ==
    \A r \in Reqs :
       /\ \A k \in DOMAIN StepRequests(r) :
             /\ StepRequests(r)[k].label = StepLabel(k - 1)
             /\ StepRequests(r)[k].recipient = plan[r][k].agent
             /\ StepRequests(r)[k].action = plan[r][k].action
       /\ \A i \in 0..Attempted(r) - 1 :
             /\ StepLabel(i) \in DOMAIN results[r]
             /\ Len(StepRequests(r)) > i

\* A plan of two steps is done; its first step timed out (or was answered
\* with an error), its second step has an outcome all the same.
C7_Witness ==
    \E r \in Reqs :
       /\ Finished(r) /\ Len(plan[r]) = 2
       /\ results[r][StepLabel(0)].status \in {"timeout", "error"}
       /\ results[r][StepLabel(1)].status = "success"

\* Request r waits for the answer to step i+1 of its plan, which went to an
\* agent without a mailbox; and the timeout of r's current wait is recorded
\* by this step.
NeverAnswered(r, i) ==
    /\ pc[r] = "wait" /\ step[r] = i
    /\ plan[r][i + 1].agent \notin DOMAIN message_queues
TimeoutRecorded(r) ==
    LET label == StepLabel(step[r]) IN
    /\ pc[r] \in {"wait", "wait_clarified"}
    /\ label \in DOMAIN results'[r] /\ results'[r][label].status = "timeout"
    /\ label \notin DOMAIN results[r] \/ results[r][label].status # "timeout"

\* C8: a timeout is recorded for a step only when AGENT_TIMEOUT seconds have
\* passed since its request was sent; a step whose target never answers
\* (it has no mailbox) does get its timeout recorded, and the plan is
\* executed to its end, every step of it with an outcome.
C8_TimeoutBoundary ==
    /\ [][\A r \in Reqs : TimeoutRecorded(r) => now - start_time[r] >= AGENT_TIMEOUT]_vars
    /\ \A r \in Reqs : \A i \in 0..MaxSteps - 1 :
          NeverAnswered(r, i) ~>
             /\ Finished(r)
             /\ StepLabel(i) \in DOMAIN results[r]
             /\ results[r][StepLabel(i)].status = "timeout"
             /\ \A j \in 0..Len(plan[r]) - 1 : StepLabel(j) \in DOMAIN results[r]

\* The first step of a plan went to an agent without a mailbox and timed
\* out; the second step got its answer.
C8_Witness ==
    \E r \in Reqs :
       /\ Finished(r) /\ Len(plan[r]) = 2
       /\ plan[r][1].agent \notin DOMAIN message_queues
       /\ results[r][StepLabel(0)].status = "timeout"
       /\ plan[r][2].agent \in DOMAIN message_queues
       /\ results[r][StepLabel(1)].status = "success"

\* C9: a planner result that is not JSON or has no steps ends the request
\* with a reply to the user, and no message is sent to any agent for it.
C9_PlannerFailureReplies ==
    \A r \in Reqs :
       planner[r] \in {"unparsable", "no_steps"} =>
          /\ pc[r] = "returned" /\ reply[r] # ""
          /\ sent[r] = <<>>

\* C10: when the handler raised for message q, the agent's status is ERROR,
\* the one message sent for q is an error envelope to q's sender under q's
\* correlation id, and the receive loop is alive, so that it takes the next
\* message of its mailbox.
C10_HandlerErrorContained ==
    \A a \in AgentNames :
       log[a].raised =>
          /\ log[a].done /\ handling[a] = NoMessage
          /\ status[a] = "error"
          /\ log[a].replies = <<[recipient |-> log[a].sender,
                                 correlation_id |-> log[a].correlation_id,
                                 message_type |-> "task_response",
                                 status |-> "error"]>>
          /\ running[a] /\ task_alive[a]

\* An agent whose handler had raised has dispatched the next message.
C10_Witness ==
    \E a \in AgentNames : log[a].after_error /\ log[a].done /\ log[a].sender # ""

\* C11: the status ERROR is sticky: an agent whose status is ERROR (after a
\* handler exception or a failed start hook) has status ERROR in every
\* later state, whatever is called or handled.
C11_ErrorSticky ==
    [][\A a \in AgentNames : status[a] = "error" => status'[a] = "error"]_vars

\* An agent's mailbox has lost none of its messages in this step.
NothingTaken(a) ==
    a \in DOMAIN message_queues =>
       /\ a \in DOMAIN message_queues'
       /\ Len(message_queues'[a]) >= Len(message_queues[a])
       /\ SubSeq(message_queues'[a], 1, Len(message_queues[a])) = message_queues[a]

\* C12: after a stop() call on an agent has returned, and until start() is
\* called again, no task of the agent's receive loop can run anything but
\* the handling of its CancelledError: no handler is in progress, no
\* message leaves the agent's mailbox and no handler ends.  This also holds
\* for a stop() call that returns while another stop() call still awaits
\* the cancelled task, and when the task was cancelled inside a handler.
C12_StopQuiesces ==
    /\ [](\A a \in AgentNames : stopped[a] => ~task_alive[a] /\ handling[a] = NoMessage)
    /\ [][\A a \in AgentNames : stopped[a] /\ stopped'[a] =>
             NothingTaken(a) /\ log'[a] = log[a]]_vars

\* A second stop() of the calendar agent has returned while the first one
\* still awaits the task it cancelled inside a handler, and messages wait
\* in the mailbox.
C12_Witness ==
    /\ stopped[CALENDAR]
    /\ stops[CALENDAR] = <<StopEntry("busy", "call")>>
    /\ message_queues[CALENDAR] # <<>>

\* The messages sent to an agent while it was stopped that no receive loop
\* has taken yet, in the order they were sent.
ParkedWaiting(a) ==
    SelectSeq(send_order[a], LAMBDA m : m.correlation_id \in parked[a])

\* C13: stop() followed by start() resumes processing with nothing lost or
\* reordered: every message sent to a registered agent between the return
\* of stop() and the call of start() stays in the agent's mailbox until the
\* receive loop takes it, and the receive loop takes these messages in the
\* order they were sent.
C13_StopStartResumes ==
    \A a \in AgentNames \cap DOMAIN message_queues :
       /\ \A k \in 1..Len(ParkedWaiting(a)) :
             \E j \in 1..Len(message_queues[a]) :
                message_queues[a][j] = ParkedWaiting(a)[k]
       /\ /\ task_alive[a] /\ handling[a] = NoMessage
          /\ message_queues[a] # <<>>
          /\ Head(message_queues[a]).correlation_id \in parked[a]
          => Head(message_queues[a]) = Head(ParkedWaiting(a))

\* C15: a start() call whose setup hook (on_start) fails ends with the
\* agent's status ERROR and fails towards its caller: the exception is
\* propagated from start(), not swallowed.
C15_FailedHookFailsStart ==
    [][\A a \in AgentNames :
          last_start'[a] # last_start[a] /\ last_start'[a].hook = "raised" =>
             status'[a] = "error" /\ last_start'[a].outcome = "raised"]_vars

\* The calendar agent's start() has ended with a failed on_start after its
\* receive loop had handled a message.
C15_Witness ==
    /\ last_start[CALENDAR].hook = "raised"
    /\ log[CALENDAR] # NoLog
    /\ status[CALENDAR] = "error"

\* C14: in every reachable state, whatever the interleaving of the
\* registry's register, unregister, start and stop calls, every agent in
\* the registry table has a mailbox in the bus (the table of mailboxes
\* holds one queue per name) and that mailbox is the queue object the
\* agent's receive loop reads.
C14_TableAgentsHaveMailbox ==
    \A name \in Names(agents) :
       name \in DOMAIN message_queues /\ message_queue[name].shared

\* C16: start_all_agents attempts to start every agent of its snapshot:
\* when the call has ended, also by the failure of one start, start_agent
\* has been called for each name of the snapshot.
C16_StartAllAttemptsAll ==
    start_all.pc \in {"returned", "raised"} =>
       \A k \in 1..Len(start_all.snapshot) :
          start_all.snapshot[k] \in start_all.attempted

\* C17: register_agent for a name that is in the registry table returns
\* False and changes nothing: the table with the registered agent object,
\* the mailboxes with their queued messages and the queue each agent reads
\* stay as they were.  So the table never holds two agents of one name.
C17_DuplicateRegisterRejected ==
    /\ [](\A j, k \in 1..Len(agents) : agents[j].name = agents[k].name => j = k)
    /\ [][last_call' # last_call /\ last_call'.op = "register"
             /\ last_call'.name \in Names(agents) =>
                /\ ~last_call'.result
                /\ UNCHANGED <<agents, bus_vars, message_queue, agent_vars>>]_vars

\* register_agent has returned False for an agent object of a registered
\* name whose mailbox holds a message.
C17_Witness ==
    /\ last_call.op = "register" /\ ~last_call.result
    /\ last_call.name \in DOMAIN message_queues
    /\ message_queues[last_call.name] # <<>>
    /\ Entry(last_call.name, 1) \in {agents[k] : k \in 1..Len(agents)}

\* The unregister_agent calls that await the stop() of an agent.
UnregisterAwaits(entries) ==
    Len(SelectSeq(entries, LAMBDA e : e.caller = "unregister"))

C19_SendFrame ==
    [][sends' # sends =>
          LET m == last_send'.message IN
          IF m.recipient \in DOMAIN message_queues
          THEN /\ last_send'.result
               /\ message_queues' = [message_queues EXCEPT ![m.recipient] = Append(@, m)]
          ELSE /\ ~last_send'.result
               /\ message_queues' = message_queues
               /\ agents' = agents]_vars

\* A client's first message went into a mailbox, its second one was for a
\* name without a mailbox.
C19_Witness ==
    /\ sends = 2
    /\ ~last_send.result
    /\ last_send.message.recipient \notin DOMAIN message_queues
    /\ \E name \in DOMAIN message_queues :
          /\ message_queues[name] # <<>>
          /\ message_queues[name][1].correlation_id = "m1"

\* C20: when the bus has unregistered a name, its mailbox is gone and the
\* unread messages with it: the unregister_agent call that returns True
\* leaves no mailbox of the name, every later send to the name returns
\* False and makes no mailbox, and a mailbox of the name comes back only by
\* a registration, empty.
C20_UnregisterDropsMailbox ==
    [][\A name \in AgentNames :
          /\ /\ last_call' # last_call
             /\ last_call' = CallEnded(last_call'.n, "unregister", name, TRUE)
             => name \notin DOMAIN message_queues'
          /\ /\ name \notin DOMAIN message_queues
             /\ sends' # sends /\ last_send'.message.recipient = name
             => ~last_send'.result /\ name \notin DOMAIN message_queues'
          /\ name \notin DOMAIN message_queues /\ name \in DOMAIN message_queues' =>
                /\ last_call' # last_call
                /\ last_call' = CallEnded(last_call'.n, "register", name, TRUE)
                /\ message_queues'[name] = <<>>]_vars

\* A name is registered again after its unregistration: the client's last
\* message went into the name's old mailbox, no receive loop ever took a
\* message, and the new mailbox is empty.
C20_Witness ==
    \E name \in RegistryNames :
       /\ last_call = CallEnded(last_call.n, "register", name, TRUE)
       /\ trail[name] = <<"entry_removed", "stopped", "mailbox_removed">>
       /\ last_send.result /\ last_send.message.recipient = name
       /\ \A a \in AgentNames : log[a] = NoLog
       /\ name \in DOMAIN message_queues
       /\ message_queues[name] = <<>>

\* C21: register(name) of the bus is idempotent.  A register call leaves
\* every mailbox that exists as it is, the one of `name` included (the same
\* messages in the same order), and makes one empty mailbox for `name` only
\* if there was none: the table holds one mailbox per name.
C21_RegisterIdempotent ==
    [][last_op'.n # last_op.n /\ last_op'.op = "register" =>
          /\ DOMAIN message_queues' = DOMAIN message_queues \cup {last_op'.name}
          /\ \A name \in DOMAIN message_queues : message_queues'[name] = message_queues[name]
          /\ last_op'.name \notin DOMAIN message_queues =>
                message_queues'[last_op'.name] = <<>>]_vars

\* A name has been registered whose mailbox held two messages: they are
\* still there.
C21_Witness ==
    /\ last_op.op = "register"
    /\ last_op.name \in DOMAIN message_queues
    /\ Len(message_queues[last_op.name]) >= 2

\* C22: broadcast(m, excludeSender) appends exactly one copy of m to every
\* mailbox registered at that moment, except to the mailbox of m's sender
\* when excludeSender is true (that one is left as it is); each copy has the
\* mailbox's name as its recipient and m's sender, kind, payload,
\* correlation id and timestamp.  No mailbox is made or removed.
C22_BroadcastCopies ==
    [][last_op'.n # last_op.n /\ last_op'.op = "broadcast" =>
          LET m == last_op'.message IN
          /\ DOMAIN message_queues' = DOMAIN message_queues
          /\ \A name \in DOMAIN message_queues :
                LET before == message_queues[name]
                    after == message_queues'[name]
                IN  IF last_op'.exclude_sender /\ name = m.sender
                    THEN after = before
                    ELSE /\ Len(after) = Len(before) + 1
                         /\ SubSeq(after, 1, Len(before)) = before
                         /\ after[Len(after)].recipient = name
                         /\ after[Len(after)].sender = m.sender
                         /\ after[Len(after)].message_type = m.message_type
                         /\ after[Len(after)].data = m.data
                         /\ after[Len(after)].correlation_id = m.correlation_id
                         /\ after[Len(after)].timestamp = m.timestamp]_vars

\* A registered agent's message has been broadcast without a copy for the
\* sender: the other mailbox has got its copy behind an older message, the
\* sender's mailbox has none.
C22_Witness ==
    /\ last_op.op = "broadcast" /\ last_op.exclude_sender
    /\ DOMAIN message_queues = BusNames
    /\ last_op.message.sender \in BusNames
    /\ \A name \in BusNames :
          IF name = last_op.message.sender
          THEN \A k \in DOMAIN message_queues[name] :
                  message_queues[name][k].correlation_id # last_op.message.correlation_id
          ELSE /\ Len(message_queues[name]) >= 2
               /\ message_queues[name][Len(message_queues[name])].correlation_id
                     = last_op.message.correlation_id

\* C23: after any sequence of register, unregister, subscribe and
\* unsubscribe operations, publish(topic, m) appends exactly one copy of m to
\* the mailbox of every current subscriber of topic (stated here for the
\* subscribers that have a mailbox) and leaves every other mailbox as it is;
\* publish to a topic without subscribers changes no mailbox.
C23_PublishFansOut ==
    [][last_op'.n # last_op.n /\ last_op'.op = "publish" =>
          LET m == last_op'.message
              topic == last_op'.topic
              current == IF topic \in DOMAIN subscribers
                         THEN {subscribers[topic][k] : k \in 1..Len(subscribers[topic])}
                         ELSE {}
          IN  /\ DOMAIN message_queues' = DOMAIN message_queues
              /\ \A name \in DOMAIN message_queues :
                    message_queues'[name] =
                       IF name \in current
                       THEN Append(message_queues[name], [m EXCEPT !.recipient = name])
                       ELSE message_queues[name]]_vars

\* The follow-up requests request r has sent for step i+1 of its plan, and
\* the prompts the clarification collaborator got for it.
ClarifiedSent(r, i) == {k \in DOMAIN sent[r] : sent[r][k].label = ClarifiedLabel(i)}
PromptsFor(r, i) == {k \in DOMAIN asked[r] : asked[r][k].label = StepLabel(i)}
Selected(prompt) == prompt.choice \in 1..Len(prompt.meetings)

\* The outcome of a step for which the capability found no candidate.
NoCandidates(outcome) == outcome.status = "error" /\ outcome.message = "No meetings found"

\* C24: a step for which the capability finds no candidate gets a failed
\* outcome, one candidate a direct success: in both cases no clarification
\* is asked for and no follow-up request is sent.  For at least two
\* candidates the clarification collaborator is asked once, and a selection
\* is followed by exactly one retry request, sent right after the step's
\* request; without a selection there is none.  The collaborator is asked
\* only about lists of at least two candidates.
C24_CandidateOutcomes ==
    \A r \in Reqs : \A i \in 0..Len(plan[r]) - 1 :
       /\ Cardinality(PromptsFor(r, i)) <= 1
       /\ \A k \in PromptsFor(r, i) :
             /\ Len(asked[r][k].meetings) >= 2
             /\ Cardinality(ClarifiedSent(r, i)) = IF Selected(asked[r][k]) THEN 1 ELSE 0
       /\ \A k \in ClarifiedSent(r, i) :
             /\ PromptsFor(r, i) # {}
             /\ k > 1 /\ sent[r][k - 1].label = StepLabel(i)
       /\ StepLabel(i) \in DOMAIN results[r] =>
             LET outcome == results[r][StepLabel(i)] IN
             /\ outcome.status = "success" \/ NoCandidates(outcome) =>
                   /\ PromptsFor(r, i) = {}
                   /\ ClarifiedSent(r, i) = {}
                   /\ ClarifiedLabel(i) \notin DOMAIN results[r]
             /\ outcome.status = "ambiguous" =>
                   /\ Len(outcome.meetings) >= 2
                   /\ Cardinality(PromptsFor(r, i)) = 1

\* One calendar step was a direct success or found no candidate; another
\* was ambiguous and was retried after a selection, with success.
C24_Witness ==
    \E r, q \in Reqs : \E i \in 0..Len(plan[r]) - 1, j \in 0..Len(plan[q]) - 1 :
       /\ Finished(r) /\ Finished(q)
       /\ plan[r][i + 1].agent = CALENDAR /\ plan[q][j + 1].agent = CALENDAR
       /\ StepLabel(i) \in DOMAIN results[r]
       /\ \/ results[r][StepLabel(i)].status = "success"
          \/ NoCandidates(results[r][StepLabel(i)])
       /\ StepLabel(j) \in DOMAIN results[q]
       /\ results[q][StepLabel(j)].status = "ambiguous"
       /\ Cardinality(ClarifiedSent(q, j)) = 1
       /\ ClarifiedLabel(j) \in DOMAIN results[q]
       /\ results[q][ClarifiedLabel(j)].status = "success"

\* Request r has just put a list of candidates to the clarification
\* collaborator and got a listed number for an answer.
SelectionMade(r) ==
    /\ Len(asked'[r]) = Len(asked[r]) + 1
    /\ Selected(asked'[r][Len(asked'[r])])

\* Request r's wait for the reply to its follow-up request has just taken
\* that reply out of the pending-response table.
FollowUpAnswered(r) ==
    /\ pc[r] = "wait_clarified"
    /\ correlation_id[r] \in DOMAIN active_tasks
    /\ correlation_id[r] \notin DOMAIN active_tasks'

\* C25: when the clarification selects candidate k of an ambiguous outcome,
\* the orchestrator sends to the step's agent exactly one follow-up request
\* select_meeting that carries the id of candidate k and the new start and
\* end time of the step's own request, under a correlation id that is not
\* the step's; and the reply to the follow-up is recorded as the step's
\* clarified outcome, next to the step's own outcome.
C25_SelectionFollowUp ==
    /\ [](\A r \in Reqs : \A i \in 0..Len(plan[r]) - 1 : \A k \in PromptsFor(r, i) :
             Selected(asked[r][k]) =>
                /\ Cardinality(ClarifiedSent(r, i)) = 1
                /\ \A n \in ClarifiedSent(r, i) :
                      /\ sent[r][n].recipient = plan[r][i + 1].agent
                      /\ sent[r][n].action = "select_meeting"
                      /\ sent[r][n].correlation_id # sent[r][n - 1].correlation_id)
    /\ [][\A r \in Reqs :
             /\ SelectionMade(r) =>
                   LET prompt == asked'[r][Len(asked'[r])]
                       agent == plan[r][step[r] + 1].agent
                       m == message_queues'[agent][Len(message_queues'[agent])]
                   IN  /\ Len(message_queues'[agent]) = Len(message_queues[agent]) + 1
                       /\ m.sender = GEMINI /\ m.recipient = agent
                       /\ m.message_type = "task" /\ m.data.action = "select_meeting"
                       /\ m.data.parameters =
                             [meeting_id |-> prompt.meetings[prompt.choice].id,
                              new_start_time |-> params[r]["new_start_time"],
                              new_end_time |-> params[r]["new_end_time"]]
                       /\ m.correlation_id # correlation_id[r]
                       /\ m.correlation_id = correlation_id'[r]
                       /\ pc'[r] = "wait_clarified"
             /\ FollowUpAnswered(r) =>
                   /\ ClarifiedLabel(step[r]) \in DOMAIN results'[r]
                   /\ results'[r][ClarifiedLabel(step[r])] = active_tasks[correlation_id[r]]
                   /\ results'[r][StepLabel(step[r])] = results[r][StepLabel(step[r])]
                   /\ results[r][StepLabel(step[r])].status = "ambiguous"]_vars

\* The second of two candidates was selected, and the reply to the follow-up
\* (the second meeting was moved) is the step's clarified outcome.
C25_Witness ==
    \E r \in Reqs : \E i \in 0..Len(plan[r]) - 1 : \E k \in PromptsFor(r, i) :
       /\ asked[r][k].choice = 2
       /\ ClarifiedLabel(i) \in DOMAIN results[r]
       /\ results[r][ClarifiedLabel(i)].status = "success"
       /\ results[r][ClarifiedLabel(i)].data = [event_id |-> Meeting2.id,
                                                link |-> "http://cal/" \o Meeting2.id]

\* The statuses of an outcome that counts as a failure of its step.
FailureStatuses == {"failed", "error", "timeout"}

\* C26: when an outcome is ambiguous and the clarification yields no
\* selection (an answer that is no listed number), no follow-up request is
\* sent, the step's outcome and its retry's outcome are both recorded as
\* failed, and execution goes on with the next step.
C26_NoSelectionFails ==
    \A r \in Reqs : \A i \in 0..Len(plan[r]) - 1 : \A k \in PromptsFor(r, i) :
       asked[r][k].choice = 0 =>
          /\ ClarifiedSent(r, i) = {}
          /\ ClarifiedLabel(i) \in DOMAIN results[r]
          /\ results[r][ClarifiedLabel(i)].status \in FailureStatuses
          /\ StepLabel(i) \in DOMAIN results[r]
          /\ results[r][StepLabel(i)].status \in FailureStatuses
          /\ step[r] > i \/ Finished(r)

\* The value C27 describes for a parameter value: a placeholder is looked
\* up, in a list item by item, and in a dict value by value.
DeepResolved(value, ctx) ==
    IF IsPlaceholder(value) THEN Lookup(value, ctx)
    ELSE IF value.kind = "list"
    THEN List([k \in DOMAIN value.items |->
                 IF IsPlaceholder(value.items[k]) THEN Lookup(value.items[k], ctx)
                 ELSE value.items[k]])
    ELSE IF value.kind = "dict"
    THEN Dict([k \in DOMAIN value.entries |->
                 IF IsPlaceholder(value.entries[k]) THEN Lookup(value.entries[k], ctx)
                 ELSE value.entries[k]])
    ELSE value

\* C27: parameter resolution returns a dict with the keys of the parameters
\* (none is dropped), in which every placeholder (a value itself, an item of
\* a list value, a value inside a dict value) is replaced by the context's
\* value for its key if the key is set and is kept as it is if the key is
\* unset, and every other value is as it was.
C27_ResolveEverywhere ==
    call.fn = "_resolve_parameters" /\ call.done =>
       /\ DOMAIN call.result = DOMAIN call.parameters
       /\ \A key \in DOMAIN call.parameters :
             call.result[key] = DeepResolved(call.parameters[key], call.context)

\* The wait of request r for the reply to a step's request has just
\* returned the response stored under its correlation id.
StepAnswered(r) ==
    /\ pc[r] = "wait" /\ Waiting(r)
    /\ results'[r] # results[r]

\* The step request r waits for is a contact lookup, and the response stored
\* for it is a success that carries an email.
LookupSucceeded(r) ==
    LET s == plan[r][step[r] + 1]
        response_data == active_tasks[correlation_id[r]]
    IN  /\ s.agent = CONTACT /\ s.action = "find_contact"
        /\ response_data.status = "success" /\ response_data.has_data
        /\ "email" \in DOMAIN response_data.data

ScopedKey(identifier) == CleanedIdentifier(identifier) \o "_email"

\* C28: after a successful contact lookup for identifier X that yields v,
\* the context maps X's scoped key to v, and the generic key
\* "contact_agent.email" to v if that key was unset and to its earlier value
\* otherwise; no other key of the context changes (so that lookups whose
\* identifiers normalize differently leave each other's scoped keys alone);
\* and a context only ever gets a value from a response that was made for a
\* request of its own plan execution.
C28_ContextKeys ==
    [][\A r \in Reqs :
          /\ StepAnswered(r) /\ LookupSucceeded(r) =>
                LET X == params[r]["identifier"]
                    v == active_tasks[correlation_id[r]].data["email"]
                    generic == CONTACT \o ".email"
                IN  /\ ScopedKey(X) \in DOMAIN context'[r]
                    /\ context'[r][ScopedKey(X)] = v
                    /\ generic \in DOMAIN context'[r]
                    /\ context'[r][generic] =
                          IF generic \in DOMAIN context[r] THEN context[r][generic] ELSE v
                    /\ \A key \in DOMAIN context[r] \ {ScopedKey(X)} :
                          key \in DOMAIN context'[r] /\ context'[r][key] = context[r][key]
          /\ context'[r] # context[r] =>
                /\ StepAnswered(r)
                /\ task_origin[correlation_id[r]] = r]_vars

\* The priority key that stands first in the priority list among those
\* present in `keys` ("" if none is present).
FirstPriorityKey(keys) ==
    LET priority == <<"email", "event_id", "contact", "meeting_id">>
        present == {k \in DOMAIN priority : \E j \in DOMAIN keys : keys[j] = priority[k]}
    IN  IF present = {} THEN ""
        ELSE priority[CHOOSE k \in present : \A j \in present : k <= j]

\* C29: for a result data dict that is not empty the chosen result key is
\* the first key of the priority list email, event_id, contact, meeting_id
\* that the dict has, and the dict's first key if it has none of them; for
\* an empty dict no key is chosen and the context stays as it was.
C29_CanonicalResultKey ==
    call.fn = "_extract_result_key" /\ call.done =>
       /\ call.keys # <<>> =>
             call.result = IF FirstPriorityKey(call.keys) # ""
                           THEN FirstPriorityKey(call.keys)
                           ELSE call.keys[1]
       /\ call.keys = <<>> => call.result = "" /\ call.published = call.context

\* C29 witness: a key has been chosen for a dict whose first key is a
\* priority key, and another key, earlier in the priority list, was chosen.
C29_Witness ==
    /\ call.fn = "_extract_result_key" /\ call.done
    /\ Len(call.keys) >= 2
    /\ call.keys[1] \in {"event_id", "contact", "meeting_id"}
    /\ call.result # call.keys[1]
    /\ call.published # call.context

\* C30: every correlation id the orchestrator generates for a step's request
\* or for a clarified retry is fresh: no two of the request messages sent so
\* far, by one request or by two, whether answered or not, carry the same
\* correlation id.
C30_FreshCorrelationIds ==
    \A r1, r2 \in Reqs : \A k1 \in DOMAIN sent[r1], k2 \in DOMAIN sent[r2] :
        <<r1, k1>> # <<r2, k2>> =>
            sent[r1][k1].correlation_id # sent[r2][k2].correlation_id

\* The number of times m occurs in a sequence.
Count(seq, m) == Cardinality({k \in DOMAIN seq : seq[k] = m})

\* A mailbox holds the messages of `order`, each as often as `order` does.
SameMessages(queue, order) ==
    /\ Len(queue) = Len(order)
    /\ \A k \in DOMAIN queue : Count(queue, queue[k]) = Count(order, queue[k])

\* The correlation ids of the calendar agent's contact lookups.
LookupCids ==
    {"contact_lookup_Alice_" \o CALENDAR \o "_" \o ToString(n) : n \in 0..MaxFifoSteps}

\* The exchange a message belongs to: one of the contact lookups (its
\* request, its reply and the messages these set off), or a step of a plan.
Exchange(message) ==
    IF message.correlation_id \in LookupCids THEN message.correlation_id ELSE "step"

\* The mailbox of agent a holds a message of exchange c.
Queued(a, c) ==
    \E k \in DOMAIN message_queues[a] : Exchange(message_queues[a][k]) = c

\* C31: every message put into the mailbox of an agent that stays
\* registered and running is consumed exactly once.  At most once: a
\* mailbox holds the messages that were sent to it and that no handler has
\* taken yet, each once (what a handler takes, as the message it handles or
\* as the reply it awaits, is gone from the mailbox, and what a wait puts
\* back is there once).  At least once, when every task that can run does
\* run: a message in a mailbox is eventually taken from it.
C31_ConsumedOnce ==
    /\ [](\A a \in DOMAIN message_queues : SameMessages(message_queues[a], send_order[a]))
    /\ \A a \in AgentNames, c \in LookupCids \cup {"step"} : Queued(a, c) ~> ~Queued(a, c)

\* C31 witness: the calendar agent waits for a lookup's reply and has put a
\* message back behind a message that was sent later.
C31_Witness ==
    /\ handling[CALENDAR] # NoMessage
    /\ Len(message_queues[CALENDAR]) >= 2
    /\ message_queues[CALENDAR] # send_order[CALENDAR]
    /\ SameMessages(message_queues[CALENDAR], send_order[CALENDAR])

\* A start() or stop() of agent a that the registry called is in progress:
\* it awaits on_start, or the task it cancelled.
AgentCallSuspended(a) ==
    \/ \E k \in DOMAIN hooks[a] : hooks[a][k] = "start_agent"
    \/ \E k \in DOMAIN stops[a] : stops[a][k].caller \in {"stop_agent", "unregister"}

Quiet ==
    /\ \A r \in Reqs : ~InFlight(r)
    /\ \A a \in DOMAIN message_queues : message_queues[a] = <<>>
    /\ \A a \in AgentNames : handling[a] = NoMessage

ReplyDispatched(a) ==
    /\ task_alive[a] /\ handling[a] = NoMessage
    /\ a \in DOMAIN message_queues /\ message_queues[a] # <<>>
    /\ Head(message_queues[a]).message_type = "task_response"
    /\ message_queues'[a] = Tail(message_queues[a])

\* C34: a reply that a receive loop dispatches, the orchestrator's or a
\* capability agent's, makes the agent send no message: the handling of a
\* reply leaves every other mailbox as it was.
C34_RepliesAreNotAnswered ==
    [][\A a \in AgentNames :
          ReplyDispatched(a) =>
             \A b \in DOMAIN message_queues \ {a} : message_queues'[b] = message_queues[b]]_vars

\* C35: get_agent_queue(name) returns for every name, with a mailbox of
\* that name in the table (the one that was there, or a new one), and it
\* does not keep the bus lock: no call of it stays suspended with the lock
\* held, which would block every bus operation after it.
C35_GetQueueReturns ==
    /\ bus_lock = ""
    /\ last_op.op = "get_agent_queue" => last_op.name \in DOMAIN message_queues

\* A start() call on agent a begins in this step: it returns at once, or
\* it suspends in on_start.
StartCalled(a) ==
    \/ Len(hooks'[a]) > Len(hooks[a])
    \/ last_start'[a] # last_start[a] /\ hooks'[a] = hooks[a]

StartFailed(a) == last_start[a].hook = "raised" /\ last_start[a].outcome = "raised"

\* C37: after a start() whose setup hook failed the agent is not left
\* running: _running is false and no receive loop of it is alive, so that
\* it takes no message from its mailbox, and the next start() call runs
\* on_start again instead of returning as "already running".
C37_FailedStartNotRunning ==
    /\ [](\A a \in AgentNames : StartFailed(a) => ~running[a] /\ ~task_alive[a])
    /\ [][\A a \in AgentNames :
            StartFailed(a) /\ StartCalled(a) =>
               Len(hooks'[a]) > Len(hooks[a]) \/ last_start'[a].hook # "none"]_vars

\* C38: the ambiguous outcome recorded under step_i is never overwritten:
\* while the retry of step i is awaited and when its wait ends, the entry
\* step_i stays as it is; the retry's outcome, a timeout or an error of it
\* included, is recorded under step_i_clarified, and once the step is over
\* both entries are present, step_i still holding the ambiguous outcome.
C38_AmbiguousOutcomeKept ==
    /\ [][\A r \in Reqs :
            pc[r] = "wait_clarified" =>
               /\ StepLabel(step[r]) \in DOMAIN results'[r]
               /\ results'[r][StepLabel(step[r])] = results[r][StepLabel(step[r])]]_vars
    /\ [](\A r \in Reqs : \A i \in 0..Len(plan[r]) - 1 :
             ClarifiedSent(r, i) # {} /\ (step[r] > i \/ Finished(r)) =>
                /\ StepLabel(i) \in DOMAIN results[r]
                /\ results[r][StepLabel(i)].status = "ambiguous"
                /\ ClarifiedLabel(i) \in DOMAIN results[r])

\* The replies of the calendar agent to a request it does not accept: an
\* action it does not know, or parameters its handler for the action misses.
NotAccepted ==
    {Reply("error", "Unknown action"),
     Reply("error", "Missing required parameters for selection.")}

\* The outcome of a follow-up request that has completed `action` on the
\* meeting `meeting_id`.
Completed(action, meeting_id, outcome) ==
    IF action = "cancel_meeting"
    THEN outcome = Reply("success", "Successfully cancelled the selected meeting.")
    ELSE outcome = ReplyData("success", [event_id |-> meeting_id,
                                         link |-> "http://cal/" \o meeting_id])

====
